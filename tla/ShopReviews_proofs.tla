-------------------------- MODULE ShopReviews_proofs --------------------------
(***************************************************************************)
(* ShopReviews for any members, shops, burgers, reviews and numbers of      *)
(* requests: what moderators wrote, and where reviews were posted.          *)
(*                                                                          *)
(* A request works with a shop it loaded some time ago.  What it needs to   *)
(* know of the shop (Good) stays true while others write: rows do not go    *)
(* away, a creator does not change, what has been active has been active,   *)
(* and a burger that is sold stays sold (Grows).                            *)
(***************************************************************************)
EXTENDS ShopReviews, TLAPS

\* Who may have posted at shop s.
Allowed(s, u) == s \in opened \/ CanModerate(u) \/ shop[s].creator = u

RequestRow ==
    [op : {"none", "rename", "approve", "reject", "close", "reopen", "post", "edit", "discard"},
     pc : {"idle", "write", "burger", "find", "store"}, user : Users \cup {None},
     shop : Shops \cup {None}, review : Reviews \cup {None}, burger : Burgers \cup {None},
     name : Names \cup {0}, rating : Ratings \cup {0}, row : ShopRow]

\* A request about to write shop q.shop as q.row.
GoodShopWrite(q) ==
    /\ q.op \in {"rename", "approve", "reject", "close", "reopen"}
    /\ shop[q.shop].at # "none"
    /\ q.op = "rename" => q.row.name # 0
    /\ q.op = "approve" => q.row.at = "active" /\ ~q.row.note
    /\ q.op = "reject" => q.row.at = "rejected"
    /\ q.op = "close" => q.shop \in opened
    /\ q.op = "reopen" => ~q.row.closed

\* A request about to write review q.review.
GoodReviewWrite(q) ==
    /\ q.op \in {"edit", "discard"}
    /\ review[q.review].at # "none"
    /\ review[q.review].author = q.user
    /\ q.op = "edit" => q.rating \in 1 .. 5

\* A request on its way to store a review.
GoodPost(q) ==
    /\ q.user \in Users
    /\ q.shop \in Shops
    /\ shop[q.shop].at # "none"
    /\ Allowed(q.shop, q.user)
    /\ q.pc \in {"find", "store"} => q.rating \in 1 .. 5 /\ (q.burger = None => q.name # 0)
    /\ q.pc = "burger" => q.burger # None
    /\ q.pc = "find" => q.burger = None
    /\ q.pc = "store" /\ q.burger # None => q.burger \in sold[q.shop]

Good(q) ==
    /\ q.pc = "write" /\ q.shop # None => GoodShopWrite(q)
    /\ q.pc = "write" /\ q.review # None => GoodReviewWrite(q)
    /\ q.pc \in {"burger", "find", "store"} => GoodPost(q)

\* What has been active, and where reviews were posted, are rows.
HistoryOK ==
    /\ opened \subseteq Shops
    /\ \A s \in Shops : shop[s].at = "active" => s \in opened
    /\ via \in [Reviews -> Shops \cup {None}]
    /\ \A v \in ReviewRows : via[v] \in Shops /\ shop[via[v]].at # "none"

RequestsOK ==
    /\ req \in [Requests -> RequestRow]
    /\ \A r \in Requests : Good(req[r])

IInv == TypeOK /\ HistoryOK /\ RequestsOK /\ StatusExplained /\ PostedWhereAllowed

\* What nobody takes away.
Grows ==
    /\ \A s \in Shops : shop[s].at # "none" =>
          shop'[s].at # "none" /\ shop'[s].creator = shop[s].creator
    /\ opened \subseteq opened'
    /\ \A s \in Shops : sold[s] \subseteq sold'[s]
    /\ \A v \in Reviews : review[v].at # "none" =>
          /\ review'[v].at # "none"
          /\ review'[v].author = review[v].author
          /\ review'[v].burger = review[v].burger
          /\ via'[v] = via[v]

-----------------------------------------------------------------------------
\* What a request that does not move needs to know stays true.
LEMMA StillGood ==
    ASSUME IInv, Grows, NEW x \in Requests, req'[x] = req[x]
    PROVE  Good(req[x])'
<1>1. Good(req[x]) /\ req[x] \in RequestRow
  BY DEF IInv, RequestsOK
<1>2. (req[x].pc = "write" /\ req[x].shop # None) => GoodShopWrite(req[x])'
  BY <1>1 DEF Good, GoodShopWrite, Grows, RequestRow
<1>3. (req[x].pc = "write" /\ req[x].review # None) => GoodReviewWrite(req[x])'
  BY <1>1 DEF Good, GoodReviewWrite, Grows, RequestRow
<1>4. req[x].pc \in {"burger", "find", "store"} => GoodPost(req[x])'
  BY <1>1 DEF Good, GoodPost, Grows, RequestRow, Allowed
<1>5. QED
  BY <1>2, <1>3, <1>4 DEF Good

\* A request that is done knows nothing.
LEMMA NoRequestGood ==
    /\ NoRequest \in RequestRow
    /\ NoRequest.pc = "idle"
  BY DEF NoRequest, RequestRow, NoShop, ShopRow

\* A step of request r to a good state, with nothing taken away.
LEMMA OneMoves ==
    ASSUME IInv, Grows, NEW r \in Requests, NEW q \in RequestRow,
           req' = [req EXCEPT ![r] = q], Good(req[r])'
    PROVE  RequestsOK'
<1>1. req' \in [Requests -> RequestRow]
  BY DEF IInv, RequestsOK
<1>2. ASSUME NEW x \in Requests PROVE Good(req[x])'
  <2>1. CASE x = r
    BY <2>1
  <2>2. CASE x # r
    BY <2>2, StillGood DEF IInv, RequestsOK
  <2>3. QED
    BY <2>1, <2>2
<1>3. QED
  BY <1>1, <1>2 DEF RequestsOK

\* The end of a request, with nothing taken away.
LEMMA OneEnds ==
    ASSUME IInv, Grows, NEW r \in Requests, Done(r)
    PROVE  RequestsOK'
<1>1. req'[r] = NoRequest
  BY DEF Done, IInv, RequestsOK
<1>2. Good(req[r])'
  BY <1>1, NoRequestGood DEF Good
<1>3. QED
  BY <1>2, OneMoves, NoRequestGood DEF Done

\* Steps that change a request only.
LEMMA RowsKept ==
    ASSUME IInv, UNCHANGED <<rows, history>>
    PROVE  Grows /\ TypeOK' /\ HistoryOK' /\ StatusExplained' /\ PostedWhereAllowed'
<1>1. Grows
  BY DEF Grows, rows, history
<1>2. TypeOK'
  BY DEF IInv, TypeOK, rows, ShopRows, ReviewRows
<1>3. HistoryOK'
  BY DEF IInv, HistoryOK, rows, history, ReviewRows
<1>4. StatusExplained'
  BY DEF IInv, StatusExplained, rows, history, ShopRows
<1>5. PostedWhereAllowed'
  BY DEF IInv, PostedWhereAllowed, rows, history, ReviewRows
<1>6. QED
  BY <1>1, <1>2, <1>3, <1>4, <1>5

\* A request arrives in a good state.
LEMMA ArriveKeeps ==
    ASSUME IInv, NEW r \in Requests, NEW op, NEW pc, NEW u, NEW q,
           Arrive(r, op, pc, u, q),
           [q EXCEPT !.op = op, !.pc = pc, !.user = u] \in RequestRow,
           Good([q EXCEPT !.op = op, !.pc = pc, !.user = u])
    PROVE  IInv'
<1>1. UNCHANGED <<rows, history>>
  BY DEF Arrive
<1>2. Grows /\ TypeOK' /\ HistoryOK' /\ StatusExplained' /\ PostedWhereAllowed'
  BY <1>1, RowsKept
<1> DEFINE n == [q EXCEPT !.op = op, !.pc = pc, !.user = u]
<1>3. req' = [req EXCEPT ![r] = n]
  BY DEF Arrive
<1>4. req'[r] = n
  BY <1>3 DEF IInv, RequestsOK
<1> HIDE DEF n
<1>5. Good(n)
  BY DEF n
<1>6. Good(n)'
  BY <1>5, <1>1 DEF Good, GoodShopWrite, GoodReviewWrite, GoodPost, Allowed, rows, history
<1>7. Good(req[r])'
  BY <1>4, <1>6
<1>8. QED
  BY <1>2, <1>3, <1>7, OneMoves DEF IInv, n

-----------------------------------------------------------------------------
(* The start, and one lemma for each group of actions.                       *)

LEMMA InitOK == Init => IInv
<1> SUFFICES ASSUME Init PROVE IInv
  OBVIOUS
<1>1. /\ user = [u \in Users |-> "active"] /\ shop = SeedShop /\ burger = SeedBurger
      /\ sold = SeedSold /\ review = SeedReview /\ via = SeedVia
      /\ opened = {s \in Shops : SeedShop[s].at = "active"}
  BY SeedAssumption DEF Init
<1>2. TypeOK
  BY <1>1, SeedAssumption DEF TypeOK, ShopRows, ReviewRows
<1>3. HistoryOK
  BY <1>1, SeedAssumption DEF HistoryOK, ReviewRows
<1>4. RequestsOK
  <2>1. req = [r \in Requests |-> NoRequest]
    BY DEF Init
  <2>2. QED
    BY <2>1, NoRequestGood DEF RequestsOK, Good
<1>5. StatusExplained
  BY <1>1, SeedAssumption DEF StatusExplained, ShopRows, ShopRow
<1>6. PostedWhereAllowed
  BY <1>1, SeedAssumption DEF PostedWhereAllowed, ReviewRows
<1>7. QED
  BY <1>2, <1>3, <1>4, <1>5, <1>6 DEF IInv

\* What Load writes down of a shop to be written.
LEMMA LoadKeeps ==
    ASSUME IInv, NEW r \in Requests, NEW u \in Users, NEW s \in Shops,
           NEW op \in {"rename", "approve", "reject", "close", "reopen"},
           NEW row \in ShopRow, Load(r, u, s, op, row),
           shop[s].at # "none",
           op = "rename" => row.name # 0,
           op = "approve" => row.at = "active" /\ ~row.note,
           op = "reject" => row.at = "rejected",
           op = "close" => s \in opened,
           op = "reopen" => ~row.closed
    PROVE  IInv'
<1> DEFINE q == [NoRequest EXCEPT !.shop = s, !.row = row]
           n == [q EXCEPT !.op = op, !.pc = "write", !.user = u]
<1>1. /\ n \in RequestRow /\ n.pc = "write" /\ n.op = op /\ n.shop = s /\ n.row = row
      /\ n.review = None
  BY DEF NoRequest, RequestRow, NoShop, ShopRow
<1>2. GoodShopWrite(n)
  BY <1>1 DEF GoodShopWrite
<1>3. Good(n)
  BY <1>1, <1>2 DEF Good
<1>4. Arrive(r, op, "write", u, q)
  BY DEF Load
<1>5. QED
  BY <1>1, <1>3, <1>4, ArriveKeeps

\* The moderators' loads.
LEMMA ModerationKeeps ==
    ASSUME IInv, NEW r \in Requests, NEW u \in Users, NEW s \in Shops,
           \/ HandleApproveShop(r, u, s)
           \/ HandleCloseShop(r, u, s)
           \/ HandleReopenShop(r, u, s)
           \/ \E n \in Names : HandleAdminUpdateShop(r, u, s, n)
           \/ \E note \in BOOLEAN : HandleRejectShop(r, u, s, note)
    PROVE  IInv'
<1>1. shop[s] \in ShopRow
  BY DEF IInv, TypeOK
<1>2. shop[s].at = "active" => s \in opened
  BY DEF IInv, HistoryOK
<1>3. CASE HandleApproveShop(r, u, s)
  <2>1. /\ shop[s].at # "none" /\ Load(r, u, s, "approve", Approve(shop[s]))
    BY <1>3 DEF HandleApproveShop, ApproveShop, Moderate, GetShopWithCreator, ShopRows
  <2>2. /\ Approve(shop[s]) \in ShopRow /\ Approve(shop[s]).at = "active"
        /\ ~Approve(shop[s]).note
    BY <1>1 DEF Approve, ShopRow, Statuses
  <2>3. QED
    BY <2>1, <2>2, LoadKeeps
<1>4. CASE HandleCloseShop(r, u, s)
  <2>1. /\ shop[s].at = "active" /\ Load(r, u, s, "close", Close(shop[s]))
    BY <1>4 DEF HandleCloseShop, CloseShop, CanBeClosed
  <2>2. Close(shop[s]) \in ShopRow
    BY <1>1 DEF Close, ShopRow
  <2>3. QED
    BY <1>2, <2>1, <2>2, LoadKeeps
<1>5. CASE HandleReopenShop(r, u, s)
  <2>1. /\ shop[s].at # "none" /\ Load(r, u, s, "reopen", Reopen(shop[s]))
    BY <1>5 DEF HandleReopenShop, ReopenShop, GetShopWithCreator, ShopRows
  <2>2. Reopen(shop[s]) \in ShopRow /\ ~Reopen(shop[s]).closed
    BY <1>1 DEF Reopen, ShopRow
  <2>3. QED
    BY <2>1, <2>2, LoadKeeps
<1>6. CASE \E n \in Names : HandleAdminUpdateShop(r, u, s, n)
  <2>1. PICK n \in Names : HandleAdminUpdateShop(r, u, s, n)
    BY <1>6
  <2>2. /\ n # 0 /\ shop[s].at # "none"
        /\ Load(r, u, s, "rename", [shop[s] EXCEPT !.name = n])
    BY <2>1 DEF HandleAdminUpdateShop, RenameShop, GetShopWithCreator, ShopRows, ValidateShopName
  <2>3. [shop[s] EXCEPT !.name = n] \in ShopRow /\ [shop[s] EXCEPT !.name = n].name = n
    BY <1>1 DEF ShopRow
  <2>4. QED
    BY <2>2, <2>3, LoadKeeps
<1>7. CASE \E note \in BOOLEAN : HandleRejectShop(r, u, s, note)
  <2>1. PICK note \in BOOLEAN : HandleRejectShop(r, u, s, note)
    BY <1>7
  <2>2. shop[s].at # "none" /\ Load(r, u, s, "reject", Reject(shop[s], note))
    BY <2>1 DEF HandleRejectShop, RejectShop, Moderate, GetShopWithCreator, ShopRows
  <2>3. Reject(shop[s], note) \in ShopRow /\ Reject(shop[s], note).at = "rejected"
    BY <1>1 DEF Reject, ShopRow, Statuses
  <2>4. QED
    BY <2>2, <2>3, LoadKeeps
<1>8. QED
  BY <1>3, <1>4, <1>5, <1>6, <1>7

\* A post that passed the checks of its shop.
LEMMA PostKeeps ==
    ASSUME IInv, NEW r \in Requests, NEW u \in Users, NEW s \in Shops,
           NEW b \in Burgers \cup {None}, NEW m \in Names \cup {0}, NEW k \in Ratings,
           HandleCreateReview(r, u, s, b, m, k)
    PROVE  IInv'
<1> DEFINE pc == IF b = None THEN "find" ELSE "burger"
           q == [NoRequest EXCEPT !.shop = s, !.burger = b, !.name = m, !.rating = k]
           n == [q EXCEPT !.op = "post", !.pc = pc, !.user = u]
<1>1. /\ n \in RequestRow /\ n.pc = pc /\ n.user = u /\ n.shop = s /\ n.burger = b
      /\ n.name = m /\ n.rating = k /\ n.op = "post"
  BY DEF NoRequest, RequestRow, NoShop, ShopRow
<1>2. /\ shop[s].at # "none" /\ CanBeReviewedBy(shop[s], u)
      /\ b = None => m # 0 /\ k \in 1 .. 5
      /\ Arrive(r, "post", pc, u, q)
  BY DEF HandleCreateReview, PostReview, GetShop, ShopRows, ValidateBurgerName, ValidateReviewContent
<1>3. Allowed(s, u)
  BY <1>2 DEF CanBeReviewedBy, Allowed, IInv, HistoryOK
<1>4. GoodPost(n)
  BY <1>1, <1>2, <1>3 DEF GoodPost
<1>5. Good(n)
  BY <1>1, <1>4 DEF Good
<1>6. QED
  BY <1>1, <1>2, <1>5, ArriveKeeps

\* The author's loads of a review.
LEMMA LoadReviewKeeps ==
    ASSUME IInv, NEW r \in Requests, NEW u \in Users, NEW v \in Reviews,
           \/ HandleDeleteReview(r, u, v)
           \/ \E k \in Ratings : HandleUpdateReview(r, u, v, k)
    PROVE  IInv'
<1>1. CASE HandleDeleteReview(r, u, v)
  <2> DEFINE q == [NoRequest EXCEPT !.review = v]
             n == [q EXCEPT !.op = "discard", !.pc = "write", !.user = u]
  <2>1. /\ n \in RequestRow /\ n.pc = "write" /\ n.op = "discard" /\ n.shop = None
        /\ n.review = v /\ n.user = u
    BY DEF NoRequest, RequestRow, NoShop, ShopRow
  <2>2. /\ review[v].at # "none" /\ review[v].author = u
        /\ Arrive(r, "discard", "write", u, q)
    BY <1>1 DEF HandleDeleteReview, DeleteReview, GetReviewDetail, CanBeModifiedBy
  <2>3. Good(n)
    BY <2>1, <2>2 DEF Good, GoodReviewWrite
  <2>4. QED
    BY <2>1, <2>2, <2>3, ArriveKeeps
<1>2. CASE \E k \in Ratings : HandleUpdateReview(r, u, v, k)
  <2>1. PICK k \in Ratings : HandleUpdateReview(r, u, v, k)
    BY <1>2
  <2> DEFINE q == [NoRequest EXCEPT !.review = v, !.rating = k]
             n == [q EXCEPT !.op = "edit", !.pc = "write", !.user = u]
  <2>2. /\ n \in RequestRow /\ n.pc = "write" /\ n.op = "edit" /\ n.shop = None
        /\ n.review = v /\ n.user = u /\ n.rating = k
    BY DEF NoRequest, RequestRow, NoShop, ShopRow
  <2>3. /\ review[v].at # "none" /\ review[v].author = u /\ k \in 1 .. 5
        /\ Arrive(r, "edit", "write", u, q)
    BY <2>1 DEF HandleUpdateReview, EditReview, GetReviewDetail, CanBeModifiedBy,
                ValidateReviewContent
  <2>4. Good(n)
    BY <2>2, <2>3 DEF Good, GoodReviewWrite
  <2>5. QED
    BY <2>2, <2>3, <2>4, ArriveKeeps
<1>3. QED
  BY <1>1, <1>2

\* A shop is submitted into a free row.
LEMMA SubmitKeeps ==
    ASSUME IInv, NEW u \in Users, NEW n \in Names, HandleCreateShop(u, n)
    PROVE  IInv'
<1>1. PICK s \in Shops : shop[s].at = "none" /\ CreateShop(s, NewShopSubmission(n, u))
  BY DEF HandleCreateShop, ShopRows
<1> DEFINE row == NewShopSubmission(n, u)
<1>2. /\ row \in ShopRow /\ row.at = "pending" /\ row.name = n /\ n # 0 /\ ~row.note /\ ~row.closed
  BY DEF NewShopSubmission, ShopRow, Statuses, HandleCreateShop, ValidateShopName
<1>3. shop' = [shop EXCEPT ![s] = row] /\ UNCHANGED <<user, burger, sold, review, req, history>>
  BY <1>1 DEF CreateShop, HandleCreateShop
<1>4. \A t \in Shops : shop'[t] = IF t = s THEN row ELSE shop[t]
  BY <1>3 DEF IInv, TypeOK
<1> HIDE DEF row
<1>5. Grows
  BY <1>1, <1>3, <1>4 DEF Grows, history
<1>6. TypeOK'
  BY <1>2, <1>3, <1>4 DEF IInv, TypeOK, ShopRows, ReviewRows
<1>7. HistoryOK'
  BY <1>1, <1>2, <1>3, <1>4 DEF IInv, HistoryOK, ReviewRows, history
<1>8. RequestsOK'
  BY <1>3, <1>5, StillGood DEF IInv, RequestsOK
<1>9. StatusExplained'
  BY <1>2, <1>3, <1>4 DEF IInv, StatusExplained, ShopRows, history
<1>10. PostedWhereAllowed'
  BY <1>1, <1>3, <1>4 DEF IInv, PostedWhereAllowed, ReviewRows, history, HistoryOK
<1>11. QED
  BY <1>6, <1>7, <1>8, <1>9, <1>10 DEF IInv

\* What a moderator's write may do to the row of a shop, by its operation.
Written(q, old, new) ==
    \/ q.op = "rename" /\ new = [old EXCEPT !.name = q.row.name]
    \/ q.op \in {"approve", "reject"} /\ new = [old EXCEPT !.at = q.row.at, !.note = q.row.note]
    \/ q.op \in {"close", "reopen"} /\ new = [old EXCEPT !.closed = q.row.closed]

\* A moderator's write changes the row of its shop, and only that.
LEMMA WriteShopDoes ==
    ASSUME IInv, NEW r \in Requests, WriteShop(r)
    PROVE  /\ req[r].pc = "write" /\ req[r].shop \in Shops /\ req[r] \in RequestRow
           /\ GoodShopWrite(req[r])
           /\ shop' \in [Shops -> ShopRow]
           /\ Written(req[r], shop[req[r].shop], shop'[req[r].shop])
           /\ \A t \in Shops : t # req[r].shop => shop'[t] = shop[t]
           /\ opened' = opened \cup {t \in Shops : shop'[t].at = "active"}
           /\ UNCHANGED <<user, burger, sold, review, via>>
           /\ Done(r)
<1> DEFINE s == req[r].shop
           row == req[r].row
<1>1. /\ req[r].pc = "write" /\ s # None /\ Done(r)
      /\ opened' = opened \cup {t \in Shops : shop'[t].at = "active"}
      /\ UNCHANGED <<user, burger, sold, review, via>>
  BY DEF WriteShop
<1>2. req[r] \in RequestRow
  BY DEF IInv, RequestsOK
<1>3. s \in Shops /\ row \in ShopRow
  BY <1>1, <1>2 DEF RequestRow
<1>4. GoodShopWrite(req[r])
  BY <1>1 DEF IInv, RequestsOK, Good
<1>5. shop \in [Shops -> ShopRow]
  BY DEF IInv, TypeOK
<1>6. CASE req[r].op = "rename" /\ UpdateShopName(s, row)
  <2>1. shop' = [shop EXCEPT ![s] = [shop[s] EXCEPT !.name = row.name]]
    BY <1>6 DEF UpdateShopName
  <2>2. [shop[s] EXCEPT !.name = row.name] \in ShopRow
    BY <1>3, <1>5 DEF ShopRow
  <2>3. QED
    BY <1>1, <1>2, <1>3, <1>4, <1>5, <1>6, <2>1, <2>2 DEF Written
<1>7. CASE req[r].op \in {"approve", "reject"} /\ UpdateShopStatus(s, row)
  <2> DEFINE new == [shop[s] EXCEPT !.at = row.at, !.note = row.note]
  <2>1. shop' = [shop EXCEPT ![s] = new]
    <3>1. shop' = [shop EXCEPT ![s].at = row.at, ![s].note = row.note]
      BY <1>7 DEF UpdateShopStatus
    <3>2. QED
      BY <1>3, <1>5, <3>1 DEF ShopRow
  <2>2. new \in ShopRow
    BY <1>3, <1>5 DEF ShopRow
  <2>3. QED
    BY <1>1, <1>2, <1>3, <1>4, <1>5, <1>7, <2>1, <2>2 DEF Written
<1>8. CASE req[r].op \in {"close", "reopen"} /\ UpdateShopClosedAt(s, row)
  <2>1. shop' = [shop EXCEPT ![s] = [shop[s] EXCEPT !.closed = row.closed]]
    BY <1>8 DEF UpdateShopClosedAt
  <2>2. [shop[s] EXCEPT !.closed = row.closed] \in ShopRow
    BY <1>3, <1>5 DEF ShopRow
  <2>3. QED
    BY <1>1, <1>2, <1>3, <1>4, <1>5, <1>8, <2>1, <2>2 DEF Written
<1>9. QED
  BY <1>6, <1>7, <1>8 DEF WriteShop

LEMMA WriteShopKeeps ==
    ASSUME IInv, NEW r \in Requests, WriteShop(r)
    PROVE  IInv'
<1> DEFINE s == req[r].shop
           row == req[r].row
<1>1. /\ s \in Shops /\ row \in ShopRow /\ req[r].op # "none"
      /\ GoodShopWrite(req[r])
      /\ shop' \in [Shops -> ShopRow]
      /\ Written(req[r], shop[s], shop'[s])
      /\ \A t \in Shops : t # s => shop'[t] = shop[t]
      /\ opened' = opened \cup {t \in Shops : shop'[t].at = "active"}
      /\ UNCHANGED <<user, burger, sold, review, via>>
      /\ Done(r)
  BY WriteShopDoes DEF RequestRow, GoodShopWrite
<1>2. shop \in [Shops -> ShopRow]
  BY DEF IInv, TypeOK
<1>3. /\ shop'[s].at = IF req[r].op \in {"approve", "reject"} THEN row.at ELSE shop[s].at
      /\ shop'[s].note = IF req[r].op \in {"approve", "reject"} THEN row.note ELSE shop[s].note
      /\ shop'[s].closed = IF req[r].op \in {"close", "reopen"} THEN row.closed ELSE shop[s].closed
      /\ shop'[s].name = IF req[r].op = "rename" THEN row.name ELSE shop[s].name
      /\ shop'[s].creator = shop[s].creator
  BY <1>1, <1>2 DEF Written, ShopRow
<1>4. /\ shop[s].at # "none" /\ shop'[s].at # "none" /\ shop'[s].name # 0
      /\ shop'[s].note => shop'[s].at = "rejected"
      /\ shop'[s].closed => s \in opened
  <2>1. /\ shop[s].at # "none" /\ shop[s].name # 0
        /\ shop[s].note => shop[s].at = "rejected"
        /\ shop[s].closed => s \in opened
    BY <1>1 DEF GoodShopWrite, IInv, TypeOK, StatusExplained, ShopRows
  <2>2. QED
    BY <1>1, <1>3, <2>1 DEF GoodShopWrite
<1>5. Grows
  BY <1>1, <1>3, <1>4 DEF Grows
<1>6. TypeOK'
  BY <1>1, <1>3, <1>4 DEF IInv, TypeOK, ShopRows, ReviewRows
<1>7. HistoryOK'
  BY <1>1, <1>3, <1>4 DEF IInv, HistoryOK, ReviewRows
<1>8. RequestsOK'
  BY <1>1, <1>5, OneEnds
<1>9. StatusExplained'
  BY <1>1, <1>3, <1>4 DEF IInv, StatusExplained, ShopRows
<1>10. PostedWhereAllowed'
  BY <1>1, <1>3 DEF IInv, PostedWhereAllowed, ReviewRows, HistoryOK
<1>11. QED
  BY <1>6, <1>7, <1>8, <1>9, <1>10 DEF IInv

\* Steps of a post before it stores.
LEMMA FindKeeps ==
    ASSUME IInv, NEW r \in Requests, FindBurgerById(r) \/ FindBurgerByName(r)
    PROVE  IInv'
<1>1. UNCHANGED <<rows, history>>
  BY DEF FindBurgerById, FindBurgerByName
<1>2. Grows /\ TypeOK' /\ HistoryOK' /\ StatusExplained' /\ PostedWhereAllowed'
  BY <1>1, RowsKept
<1>3. req[r] \in RequestRow /\ Good(req[r])
  BY DEF IInv, RequestsOK
<1>4. CASE FindBurgerById(r)
  <2>1. CASE Done(r)
    BY <1>2, <2>1, OneEnds DEF IInv
  <2>2. CASE ~Done(r)
    <3> DEFINE n == [req[r] EXCEPT !.pc = "store"]
    <3>1. /\ req[r].pc = "burger" /\ req[r].burger \in sold[req[r].shop]
          /\ req[r].rating \in 1 .. 5
          /\ req' = [req EXCEPT ![r] = n]
      BY <1>4, <2>2 DEF FindBurgerById, GetShopBurgerWithStats, ValidateReviewContent
    <3>2. /\ n \in RequestRow /\ n.pc = "store" /\ n.user = req[r].user /\ n.shop = req[r].shop
          /\ n.burger = req[r].burger /\ n.rating = req[r].rating
      BY <1>3 DEF RequestRow
    <3>3. req'[r] = n
      BY <3>1 DEF IInv, RequestsOK
    <3>4. GoodPost(req[r]) /\ req[r].burger # None
      BY <1>3, <3>1 DEF Good, GoodPost
    <3>5. GoodPost(req[r])'
      BY <1>1, <3>1, <3>2, <3>3, <3>4 DEF GoodPost, Allowed, rows, history
    <3>6. Good(req[r])'
      BY <3>2, <3>3, <3>5 DEF Good
    <3>7. QED
      BY <1>2, <3>1, <3>2, <3>6, OneMoves DEF IInv
  <2>3. QED
    BY <2>1, <2>2
<1>5. CASE FindBurgerByName(r)
  <2>1. PICK b \in Burgers \cup {None} :
          /\ GetShopBurgerByNameWithStats(req[r].shop, req[r].name, b)
          /\ req' = [req EXCEPT ![r].pc = "store", ![r].burger = b]
    BY <1>5 DEF FindBurgerByName
  <2> DEFINE n == [req[r] EXCEPT !.pc = "store", !.burger = b]
  <2>2. req' = [req EXCEPT ![r] = n]
    <3>1. req \in [Requests -> RequestRow]
      BY DEF IInv, RequestsOK
    <3>2. QED
      BY <2>1, <3>1 DEF RequestRow
  <2>3. /\ n \in RequestRow /\ n.pc = "store" /\ n.user = req[r].user /\ n.shop = req[r].shop
        /\ n.burger = b /\ n.rating = req[r].rating /\ n.name = req[r].name
    BY <1>3 DEF RequestRow
  <2>4. req'[r] = n
    BY <2>2 DEF IInv, RequestsOK
  <2>5. b # None => b \in sold[req[r].shop]
    BY <2>1 DEF GetShopBurgerByNameWithStats, IsFirst
  <2>6. req[r].pc = "find" /\ GoodPost(req[r])
    BY <1>3, <1>5 DEF Good, FindBurgerByName
  <2>7. req[r].name # 0
    BY <2>6, <1>3 DEF GoodPost
  <2>8. GoodPost(req[r])'
    BY <1>1, <2>3, <2>4, <2>5, <2>6, <2>7 DEF GoodPost, Allowed, rows, history
  <2>9. Good(req[r])'
    BY <2>3, <2>4, <2>8 DEF Good
  <2>10. QED
    BY <1>2, <2>2, <2>3, <2>9, OneMoves DEF IInv
<1>6. QED
  BY <1>4, <1>5

\* The commit of a post: the review, and the burger it made.
LEMMA StoreKeeps ==
    ASSUME IInv, NEW r \in Requests, StoreReview(r)
    PROVE  IInv'
<1> DEFINE q == req[r]
<1>1. PICK b \in Burgers, v \in Reviews :
        /\ IF q.burger # None THEN b = q.burger /\ UNCHANGED <<burger, sold>>
           ELSE CreateBurger(b, q.name) /\ CreateShopBurger(q.shop, b)
        /\ CreateReview(v, NewReview(q.user, b, q.rating))
        /\ via' = [via EXCEPT ![v] = q.shop]
  BY DEF StoreReview
<1>2. Done(r) /\ UNCHANGED <<user, shop, opened>> /\ q.pc = "store"
  BY DEF StoreReview
<1>3. q \in RequestRow /\ GoodPost(q)
  BY <1>2 DEF IInv, RequestsOK, Good
<1>4. /\ q.user \in Users /\ q.shop \in Shops /\ shop[q.shop].at # "none"
      /\ Allowed(q.shop, q.user) /\ q.rating \in 1 .. 5
      /\ q.burger = None => q.name \in Names \ {0}
      /\ q.burger # None => q.burger \in sold[q.shop]
  BY <1>2, <1>3 DEF GoodPost, RequestRow
<1> DEFINE new == NewReview(q.user, b, q.rating)
<1>5. /\ new \in ReviewRow /\ new.at = "kept" /\ new.author = q.user /\ new.burger = b
      /\ new.rating = q.rating
  BY <1>4 DEF NewReview, ReviewRow
<1>6. /\ review[v].at = "none"
      /\ \A w \in Reviews : review'[w] = IF w = v THEN new ELSE review[w]
      /\ review' \in [Reviews -> ReviewRow]
  BY <1>1, <1>5 DEF CreateReview, IsFirst, ReviewRows, IInv, TypeOK
<1>7. /\ \A w \in Reviews : via'[w] = IF w = v THEN q.shop ELSE via[w]
      /\ via' \in [Reviews -> Shops \cup {None}]
  BY <1>1, <1>4 DEF IInv, HistoryOK
<1>8. /\ b \in sold'[q.shop] /\ burger'[b] # None
      /\ burger' \in [Burgers -> (Names \ {0}) \cup {None}]
      /\ sold' \in [Shops -> SUBSET {c \in Burgers : burger'[c] # None}]
      /\ \A s \in Shops : sold[s] \subseteq sold'[s]
      /\ \A c \in Burgers : c # b => burger'[c] = burger[c]
  <2>1. CASE q.burger # None
    BY <1>1, <1>4, <2>1 DEF IInv, TypeOK
  <2>2. CASE q.burger = None
    <3>1. /\ burger[b] = None
          /\ burger' = [burger EXCEPT ![b] = q.name]
          /\ sold' = [sold EXCEPT ![q.shop] = @ \cup {b}]
      BY <1>1, <2>2 DEF CreateBurger, CreateShopBurger, IsFirst
    <3>2. q.name # None
      BY <1>4, <2>2, ShopReviewsAssumption
    <3>3. QED
      BY <1>4, <2>2, <3>1, <3>2 DEF IInv, TypeOK
  <2>3. QED
    BY <2>1, <2>2
<1>9. Grows
  BY <1>2, <1>6, <1>7, <1>8 DEF Grows
<1>10. TypeOK'
  <2>1. \A w \in ReviewRows' : /\ review'[w].author \in Users /\ burger'[review'[w].burger] # None
                               /\ review'[w].rating # 0
    <3>1. SUFFICES ASSUME NEW w \in ReviewRows'
                   PROVE /\ review'[w].author \in Users /\ burger'[review'[w].burger] # None
                         /\ review'[w].rating # 0
      OBVIOUS
    <3>2. CASE w = v
      BY <1>4, <1>5, <1>6, <1>8, <3>2
    <3>3. CASE w # v
      <4>1. w \in ReviewRows /\ review'[w] = review[w]
        BY <1>6, <3>3 DEF ReviewRows
      <4>2. /\ review[w].author \in Users /\ burger[review[w].burger] # None
            /\ review[w].rating # 0
        BY <4>1 DEF IInv, TypeOK
      <4>3. review[w].burger \in sold[via[w]] /\ via[w] \in Shops
        BY <4>1 DEF IInv, PostedWhereAllowed, HistoryOK
      <4>4. review[w].burger \in Burgers
        BY <4>3 DEF IInv, TypeOK
      <4>5. burger'[review[w].burger] # None
        BY <1>8, <4>2, <4>4
      <4>6. QED
        BY <4>1, <4>2, <4>5
    <3>4. QED
      BY <3>2, <3>3
  <2>2. QED
    BY <1>2, <1>6, <1>8, <2>1 DEF IInv, TypeOK, ShopRows
<1>11. HistoryOK'
  BY <1>2, <1>4, <1>6, <1>7 DEF IInv, HistoryOK, ReviewRows
<1>12. RequestsOK'
  BY <1>2, <1>9, OneEnds
<1>13. StatusExplained'
  BY <1>2 DEF IInv, StatusExplained, ShopRows
<1>14. PostedWhereAllowed'
  <2>1. ASSUME NEW w \in ReviewRows'
        PROVE  /\ review'[w].burger \in sold'[via'[w]]
               /\ \/ via'[w] \in opened'
                  \/ CanModerate(review'[w].author)
                  \/ shop'[via'[w]].creator = review'[w].author
    <3>1. CASE w = v
      BY <1>2, <1>4, <1>5, <1>6, <1>7, <1>8, <3>1 DEF Allowed
    <3>2. CASE w # v
      <4>1. w \in ReviewRows /\ review'[w] = review[w] /\ via'[w] = via[w] /\ via[w] \in Shops
        BY <1>6, <1>7, <3>2 DEF ReviewRows, IInv, HistoryOK
      <4>2. QED
        BY <1>2, <1>8, <4>1 DEF IInv, PostedWhereAllowed
    <3>3. QED
      BY <3>1, <3>2
  <2>2. ASSUME NEW c \in Burgers, burger'[c] # None, SeedBurger[c] = None
        PROVE  \E w \in ReviewRows' : review'[w].burger = c
    <3>1. CASE c = b
      BY <1>5, <1>6, <3>1 DEF ReviewRows
    <3>2. CASE c # b
      <4>1. PICK w \in ReviewRows : review[w].burger = c
        BY <1>8, <2>2, <3>2 DEF IInv, PostedWhereAllowed
      <4>2. w \in ReviewRows' /\ review'[w] = review[w]
        BY <1>6, <4>1 DEF ReviewRows
      <4>3. QED
        BY <4>1, <4>2
    <3>3. QED
      BY <3>1, <3>2
  <2>3. QED
    BY <2>1, <2>2 DEF PostedWhereAllowed
<1>15. QED
  BY <1>10, <1>11, <1>12, <1>13, <1>14 DEF IInv

\* What the write of a loaded review may do.
LEMMA WriteReviewDoes ==
    ASSUME IInv, NEW r \in Requests, WriteReview(r)
    PROVE  /\ req[r].review \in Reviews /\ Done(r)
           /\ UNCHANGED <<user, shop, burger, sold, history>>
           /\ review' \in [Reviews -> ReviewRow]
           /\ review[req[r].review].at # "none"
           /\ \A w \in Reviews : w # req[r].review => review'[w] = review[w]
           /\ \/ review' = review
              \/ /\ review[req[r].review].at = "kept" /\ req[r].op = "edit"
                 /\ req[r].rating \in 1 .. 5
                 /\ req[r].user = review[req[r].review].author
                 /\ review'[req[r].review] = [review[req[r].review] EXCEPT !.rating = req[r].rating]
              \/ /\ review[req[r].review].at = "kept" /\ req[r].op = "discard"
                 /\ review'[req[r].review] = [review[req[r].review] EXCEPT !.at = "discarded"]
<1> DEFINE v == req[r].review
<1>1. /\ req[r].pc = "write" /\ v # None /\ Done(r)
      /\ UNCHANGED <<user, shop, burger, sold, history>>
  BY DEF WriteReview
<1>2. req[r] \in RequestRow /\ GoodReviewWrite(req[r])
  BY <1>1 DEF IInv, RequestsOK, Good
<1>3. v \in Reviews
  BY <1>1, <1>2 DEF RequestRow
<1>4. review \in [Reviews -> ReviewRow] /\ review[v].at # "none"
  BY <1>2 DEF IInv, TypeOK, GoodReviewWrite
<1>5. CASE req[r].op = "edit" /\ UpdateReviewContent(v, req[r].rating)
  <2>1. /\ review[v].at = "kept" /\ req[r].rating \in 1 .. 5 /\ req[r].user = review[v].author
        /\ review' = [review EXCEPT ![v] = [review[v] EXCEPT !.rating = req[r].rating]]
    BY <1>2, <1>5 DEF UpdateReviewContent, GoodReviewWrite
  <2>2. [review[v] EXCEPT !.rating = req[r].rating] \in ReviewRow
    BY <1>3, <1>4, <2>1 DEF ReviewRow
  <2>3. QED
    BY <1>1, <1>3, <1>4, <1>5, <2>1, <2>2
<1>6. CASE req[r].op = "discard" /\ DiscardReview(v)
  <2>1. /\ review[v].at = "kept"
        /\ review' = [review EXCEPT ![v] = [review[v] EXCEPT !.at = "discarded"]]
    BY <1>6 DEF DiscardReview
  <2>2. [review[v] EXCEPT !.at = "discarded"] \in ReviewRow
    BY <1>3, <1>4 DEF ReviewRow
  <2>3. QED
    BY <1>1, <1>3, <1>4, <1>6, <2>1, <2>2
<1>7. CASE review' = review
  BY <1>1, <1>3, <1>4, <1>7
<1>8. QED
  BY <1>5, <1>6, <1>7 DEF WriteReview

LEMMA WriteReviewKeeps ==
    ASSUME IInv, NEW r \in Requests, WriteReview(r)
    PROVE  IInv'
<1> DEFINE v == req[r].review
<1>1. /\ v \in Reviews /\ Done(r)
      /\ UNCHANGED <<user, shop, burger, sold, history>>
      /\ review' \in [Reviews -> ReviewRow] /\ review \in [Reviews -> ReviewRow]
  BY WriteReviewDoes DEF IInv, TypeOK
<1>2. \A w \in Reviews :
        /\ review'[w].at # "none" <=> review[w].at # "none"
        /\ review'[w].author = review[w].author
        /\ review'[w].burger = review[w].burger
        /\ review[w].rating # 0 => review'[w].rating # 0
  <2>1. TAKE w \in Reviews
  <2>2. review[w] \in ReviewRow
    BY <1>1
  <2>3. \/ review'[w] = review[w]
        \/ /\ review[w].at = "kept" /\ req[r].rating \in 1 .. 5
           /\ review'[w] = [review[w] EXCEPT !.rating = req[r].rating]
        \/ /\ review[w].at = "kept"
           /\ review'[w] = [review[w] EXCEPT !.at = "discarded"]
    BY WriteReviewDoes
  <2>4. QED
    BY <2>2, <2>3 DEF ReviewRow
<1>3. ReviewRows' = ReviewRows
  BY <1>2 DEF ReviewRows
<1>4. Grows
  BY <1>1, <1>2 DEF Grows, history
<1>5. TypeOK'
  BY <1>1, <1>2, <1>3 DEF IInv, TypeOK, ShopRows, ReviewRows
<1>6. HistoryOK'
  BY <1>1, <1>3 DEF IInv, HistoryOK, history
<1>7. RequestsOK'
  BY <1>1, <1>4, OneEnds
<1>8. StatusExplained'
  BY <1>1 DEF IInv, StatusExplained, ShopRows, history
<1>9. PostedWhereAllowed'
  BY <1>1, <1>2, <1>3 DEF IInv, PostedWhereAllowed, history, ReviewRows
<1>10. QED
  BY <1>5, <1>6, <1>7, <1>8, <1>9 DEF IInv

\* A withdrawal keeps the rows of the user's reviews.
LEMMA WithdrawKeeps ==
    ASSUME IInv, NEW u \in Users, Withdraw(u)
    PROVE  IInv'
<1>1. /\ user' = [user EXCEPT ![u] = "gone"]
      /\ UNCHANGED <<shop, burger, sold, review, req, history>>
  BY DEF Withdraw
<1>2. Grows
  BY <1>1 DEF Grows, history
<1>3. TypeOK'
  BY <1>1 DEF IInv, TypeOK, ShopRows, ReviewRows
<1>4. HistoryOK'
  BY <1>1 DEF IInv, HistoryOK, ReviewRows, history
<1>5. RequestsOK'
  BY <1>1, <1>2, StillGood DEF IInv, RequestsOK
<1>6. StatusExplained' /\ PostedWhereAllowed'
  BY <1>1 DEF IInv, StatusExplained, PostedWhereAllowed, ShopRows, ReviewRows, history
<1>7. QED
  BY <1>3, <1>4, <1>5, <1>6 DEF IInv

LEMMA FailKeeps ==
    ASSUME IInv, NEW r \in Requests, Fail(r)
    PROVE  IInv'
<1>1. UNCHANGED <<rows, history>> /\ Done(r)
  BY DEF Fail
<1>2. QED
  BY <1>1, RowsKept, OneEnds DEF IInv

-----------------------------------------------------------------------------
(* Theorems.                                                                 *)

LEMMA StepKeeps == IInv /\ [Next]_vars => IInv'
<1> SUFFICES ASSUME IInv, [Next]_vars PROVE IInv'
  OBVIOUS
<1>1. CASE UNCHANGED vars
  <2>1. UNCHANGED <<rows, history>> /\ UNCHANGED req
    BY <1>1 DEF vars
  <2>2. RequestsOK'
    BY <2>1, RowsKept, StillGood DEF IInv, RequestsOK
  <2>3. QED
    BY <2>1, <2>2, RowsKept DEF IInv
<1>2. CASE \E u \in Users : Withdraw(u) \/ \E n \in Names : HandleCreateShop(u, n)
  BY <1>2, WithdrawKeeps, SubmitKeeps
<1>3. ASSUME NEW r \in Requests,
             \/ WriteShop(r) \/ FindBurgerById(r) \/ FindBurgerByName(r)
             \/ StoreReview(r) \/ WriteReview(r) \/ Fail(r)
      PROVE  IInv'
  BY <1>3, WriteShopKeeps, FindKeeps, StoreKeeps, WriteReviewKeeps, FailKeeps
<1>4. ASSUME NEW r \in Requests, NEW u \in Users, NEW s \in Shops,
             \/ HandleApproveShop(r, u, s)
             \/ HandleCloseShop(r, u, s)
             \/ HandleReopenShop(r, u, s)
             \/ \E n \in Names : HandleAdminUpdateShop(r, u, s, n)
             \/ \E note \in BOOLEAN : HandleRejectShop(r, u, s, note)
      PROVE  IInv'
  BY <1>4, ModerationKeeps
<1>5. ASSUME NEW r \in Requests, NEW u \in Users, NEW s \in Shops, NEW k \in Ratings,
             \/ \E b \in Burgers : HandleCreateReview(r, u, s, b, 0, k)
             \/ \E n \in Names : HandleCreateReview(r, u, s, None, n, k)
      PROVE  IInv'
  BY <1>5, PostKeeps
<1>6. ASSUME NEW r \in Requests, NEW u \in Users, NEW v \in Reviews,
             \/ HandleDeleteReview(r, u, v)
             \/ \E k \in Ratings : HandleUpdateReview(r, u, v, k)
      PROVE  IInv'
  BY <1>6, LoadReviewKeeps
<1>7. QED
  BY <1>1, <1>2, <1>3, <1>4, <1>5, <1>6 DEF Next

LEMMA Invariance == Spec => []IInv
<1>1. QED
  BY InitOK, StepKeeps, PTL DEF Spec

\* The rows of shops, burgers, links and reviews always have the form the
\* schema gives them.
THEOREM ShopsTypeCorrect == Spec => []TypeOK
<1>1. IInv => TypeOK
  BY DEF IInv
<1>2. QED
  BY <1>1, Invariance, PTL

\* In whatever order moderators read and write, a note explains a rejection,
\* and what is closed has been open.
THEOREM StatusIsExplained == Spec => []StatusExplained
<1>1. IInv => StatusExplained
  BY DEF IInv
<1>2. QED
  BY <1>1, Invariance, PTL

\* A review is about a burger of the shop it was posted at, by somebody who was
\* allowed there, and no burger is left without one.
THEOREM ReviewsArePosted == Spec => []PostedWhereAllowed
<1>1. IInv => PostedWhereAllowed
  BY DEF IInv
<1>2. QED
  BY <1>1, Invariance, PTL

\* What NothingUndone says of one step.
StepUndoesNothing ==
    /\ \A s \in ShopRows :
        /\ shop'[s].name # shop[s].name => Wrote(s, {"rename"})
        /\ <<shop'[s].at, shop'[s].note>> # <<shop[s].at, shop[s].note>>
                => Wrote(s, {"approve", "reject"})
        /\ shop'[s].closed # shop[s].closed => Wrote(s, {"close", "reopen"})
    /\ \A v \in ReviewRows :
        /\ review[v].at = "discarded" => review'[v] = review[v]
        /\ review'[v].rating # review[v].rating =>
            \E r \in Requests : /\ req[r].op = "edit" /\ req[r].review = v
                                /\ req[r].user = review[v].author

\* Most steps change no row there is of a shop or of a review.
LEMMA NothingWritten ==
    ASSUME \A s \in ShopRows : shop'[s] = shop[s],
           \A v \in ReviewRows : review'[v] = review[v]
    PROVE  StepUndoesNothing
  BY DEF StepUndoesNothing

LEMMA StepIsCareful == IInv /\ [Next]_vars => StepUndoesNothing
<1> SUFFICES ASSUME IInv, [Next]_vars PROVE StepUndoesNothing
  OBVIOUS
<1>1. CASE UNCHANGED <<shop, review>>
  BY <1>1, NothingWritten
<1>2. ASSUME NEW r \in Requests, WriteShop(r) PROVE StepUndoesNothing
  <2> DEFINE s == req[r].shop
  <2>1. /\ s \in Shops /\ shop[s] \in ShopRow /\ Written(req[r], shop[s], shop'[s])
        /\ req[r].pc = "write"
        /\ \A t \in Shops : t # s => shop'[t] = shop[t]
        /\ UNCHANGED review
    BY <1>2, WriteShopDoes DEF IInv, TypeOK
  <2>2. req'[r].pc = "idle"
    BY <1>2, WriteShopDoes, NoRequestGood DEF Done, IInv, RequestsOK
  <2>3. /\ shop'[s].name # shop[s].name => req[r].op = "rename"
        /\ shop'[s].at # shop[s].at \/ shop'[s].note # shop[s].note
                => req[r].op \in {"approve", "reject"}
        /\ shop'[s].closed # shop[s].closed => req[r].op \in {"close", "reopen"}
    BY <2>1 DEF Written, ShopRow
  <2>4. QED
    BY <2>1, <2>2, <2>3 DEF StepUndoesNothing, Wrote, ShopRows
<1>3. ASSUME NEW r \in Requests, WriteReview(r) PROVE StepUndoesNothing
  <2> DEFINE v == req[r].review
  <2>1. /\ v \in Reviews /\ UNCHANGED shop /\ review \in [Reviews -> ReviewRow]
        /\ \A w \in Reviews : w # v => review'[w] = review[w]
    BY <1>3, WriteReviewDoes DEF IInv, TypeOK
  <2>2. \/ review'[v] = review[v]
        \/ /\ review[v].at = "kept" /\ req[r].op = "edit"
           /\ req[r].user = review[v].author
        \/ /\ review[v].at = "kept"
           /\ review'[v] = [review[v] EXCEPT !.at = "discarded"]
    BY <1>3, WriteReviewDoes
  <2>3. /\ review[v].at = "discarded" => review'[v] = review[v]
        /\ review'[v].rating # review[v].rating =>
              req[r].op = "edit" /\ req[r].user = review[v].author
    BY <2>1, <2>2 DEF ReviewRow
  <2>4. QED
    BY <2>1, <2>3 DEF StepUndoesNothing, ReviewRows, ShopRows
<1>4. ASSUME NEW r \in Requests, StoreReview(r) PROVE StepUndoesNothing
  <2>1. PICK v \in Reviews, row \in {NewReview(req[r].user, b, req[r].rating) : b \in Burgers} :
          v \notin ReviewRows /\ review' = [review EXCEPT ![v] = row]
    BY <1>4 DEF StoreReview, CreateReview, IsFirst
  <2>2. UNCHANGED shop
    BY <1>4 DEF StoreReview
  <2>3. \A w \in ReviewRows : review'[w] = review[w]
    BY <2>1 DEF ReviewRows, IInv, TypeOK
  <2>4. QED
    BY <2>2, <2>3, NothingWritten
<1>5. ASSUME NEW u \in Users, NEW n \in Names, HandleCreateShop(u, n) PROVE StepUndoesNothing
  <2>1. PICK s \in Shops : s \notin ShopRows /\ shop' = [shop EXCEPT ![s] = NewShopSubmission(n, u)]
    BY <1>5 DEF HandleCreateShop, CreateShop, IsFirst
  <2>2. UNCHANGED review
    BY <1>5 DEF HandleCreateShop
  <2>3. \A t \in ShopRows : shop'[t] = shop[t]
    BY <2>1 DEF ShopRows, IInv, TypeOK
  <2>4. QED
    BY <2>2, <2>3, NothingWritten
<1>6. QED
  <2>1. CASE UNCHANGED vars
    BY <2>1, <1>1 DEF vars, rows
  <2>2. ASSUME NEW r \in Requests,
               FindBurgerById(r) \/ FindBurgerByName(r) \/ Fail(r)
        PROVE  UNCHANGED <<shop, review>>
    BY <2>2 DEF FindBurgerById, FindBurgerByName, Fail, rows
  <2>3. ASSUME NEW u \in Users, Withdraw(u) PROVE UNCHANGED <<shop, review>>
    BY <2>3 DEF Withdraw
  <2>4. ASSUME NEW r, NEW op, NEW pc, NEW u, NEW q, Arrive(r, op, pc, u, q)
        PROVE  UNCHANGED <<shop, review>>
    BY <2>4 DEF Arrive, rows
  <2>5. ASSUME NEW r \in Requests, NEW u \in Users, NEW s \in Shops,
               \/ HandleApproveShop(r, u, s)
               \/ HandleCloseShop(r, u, s)
               \/ HandleReopenShop(r, u, s)
               \/ \E n \in Names : HandleAdminUpdateShop(r, u, s, n)
               \/ \E note \in BOOLEAN : HandleRejectShop(r, u, s, note)
        PROVE  UNCHANGED <<shop, review>>
    BY <2>4, <2>5 DEF HandleApproveShop, ApproveShop, HandleRejectShop, RejectShop, Moderate,
         HandleCloseShop, CloseShop, HandleReopenShop, ReopenShop, HandleAdminUpdateShop,
         RenameShop, Load
  <2>6. ASSUME NEW r \in Requests, NEW u \in Users, NEW s \in Shops, NEW k \in Ratings,
               \/ \E b \in Burgers : HandleCreateReview(r, u, s, b, 0, k)
               \/ \E n \in Names : HandleCreateReview(r, u, s, None, n, k)
        PROVE  UNCHANGED <<shop, review>>
    BY <2>4, <2>6 DEF HandleCreateReview, PostReview
  <2>7. ASSUME NEW r \in Requests, NEW u \in Users, NEW v \in Reviews,
               \/ HandleDeleteReview(r, u, v)
               \/ \E k \in Ratings : HandleUpdateReview(r, u, v, k)
        PROVE  UNCHANGED <<shop, review>>
    BY <2>4, <2>7 DEF HandleDeleteReview, DeleteReview, HandleUpdateReview, EditReview
  <2>8. QED
    BY <1>1, <1>2, <1>3, <1>4, <1>5, <2>1, <2>2, <2>3, <2>5, <2>6, <2>7 DEF Next

\* A write from an old load undoes nothing that another moderator, or the
\* author, did meanwhile.
THEOREM NoLostUpdate == Spec => NothingUndone
<1>1. IInv /\ [Next]_vars => [StepUndoesNothing]_vars
  BY StepIsCareful
<1>2. QED
  BY <1>1, Invariance, PTL DEF Spec, NothingUndone, StepUndoesNothing
===============================================================================
