----------------------------- MODULE ShopReviews -----------------------------
(***************************************************************************)
(* Shops, their burgers and their reviews.  A member submits a shop, which  *)
(* waits as pending; an administrator approves, rejects, renames, closes or *)
(* reopens it.  Each of these loads the shop, applies a rule to what it     *)
(* loaded, and then writes only the columns of its own operation.  A review *)
(* is posted for a burger the shop sells, or for a new name, whose burger   *)
(* is made in the transaction that stores the review.  What lists, details, *)
(* feed and ranking show is a function of the rows and of the viewer.       *)
(*                                                                          *)
(* Shops, burgers and reviews are numbered as they are created: the order   *)
(* of the numbers is the order of created_at, id.                           *)
(***************************************************************************)
EXTENDS Integers, FiniteSets, Sequences

CONSTANTS
    Users, Admins,
    Shops, Burgers, Reviews,   \* numbers 1 .. n: rows there is room for
    Names,                     \* names of shops and burgers; 0 is blank
    Ratings,                   \* ratings that a request may carry
    SeedShop,                  \* rows of shops at the start
    SeedBurger,                \* names of the burgers at the start
    SeedSold,                  \* burgers a shop sells at the start
    SeedReview,                \* rows of reviews at the start
    SeedVia,                   \* the shops they were posted at
    Averages,                  \* averages that shop_stats may hold; 0 is none
    PerPages,                  \* page sizes that a request may ask for
    Requests,                  \* requests that run at the same time
    MaxRequests,               \* bound: requests that change something
    MaxFaults,                 \* bound: errors and crashes
    None

ASSUME ShopReviewsAssumption ==
    /\ Admins \subseteq Users
    /\ Shops \cup Burgers \cup Reviews \cup Names \cup Ratings \subseteq Nat
    /\ MaxRequests \in Nat /\ MaxFaults \in Nat
    /\ None \notin Users \cup Nat

VARIABLES
    user,     \* "active" or "gone" for each user
    shop,     \* rows of shops
    burger,   \* names of burgers; None where there is no row
    sold,     \* rows of shops_burgers, by shop
    review,   \* rows of reviews
    req,      \* running requests
    opened,   \* history: shops that have been active
    via,      \* history: the shop a review was posted at
    started, faults

rows    == <<user, shop, burger, sold, review>>
history == <<opened, via>>
bounds  == <<started, faults>>
vars    == <<rows, req, history, bounds>>

Statuses == {"pending", "active", "rejected"}

NoShop   == [at |-> "none", note |-> FALSE, closed |-> FALSE, name |-> 0, creator |-> None]
NoReview == [at |-> "none", author |-> None, burger |-> None, rating |-> 0]

\* The columns of the two tables.
ShopRow ==
    [at : Statuses \cup {"none"}, note : BOOLEAN, closed : BOOLEAN, name : Names \cup {0},
     creator : Users \cup {None}]
ReviewRow ==
    [at : {"none", "kept", "discarded"}, author : Users \cup {None},
     burger : Burgers \cup {None}, rating : 0 .. 5]

\* The rows at the start are ones that the seed tool writes, or earlier requests.
ASSUME SeedAssumption ==
    /\ SeedShop \in [Shops -> ShopRow]
    /\ SeedBurger \in [Burgers -> (Names \ {0}) \cup {None}]
    /\ SeedSold \in [Shops -> SUBSET {b \in Burgers : SeedBurger[b] # None}]
    /\ SeedReview \in [Reviews -> ReviewRow]
    /\ SeedVia \in [Reviews -> Shops \cup {None}]
    /\ \A s \in Shops :
        /\ SeedShop[s].at # "none" => SeedShop[s].name # 0
        /\ SeedShop[s].note => SeedShop[s].at = "rejected"
        /\ SeedShop[s].closed => SeedShop[s].at = "active"
    /\ \A v \in {w \in Reviews : SeedReview[w].at # "none"} :
        /\ SeedReview[v].author \in Users /\ SeedReview[v].rating # 0
        /\ SeedVia[v] \in Shops
        /\ SeedShop[SeedVia[v]].at = "active"
        /\ SeedReview[v].burger \in SeedSold[SeedVia[v]]

NoRequest == [op |-> "none", pc |-> "idle", user |-> None, shop |-> None, review |-> None,
              burger |-> None, name |-> 0, rating |-> 0, row |-> NoShop]

Init ==
    /\ user = [u \in Users |-> "active"]
    /\ shop = [s \in Shops |-> SeedShop[s]]
    /\ burger = [b \in Burgers |-> SeedBurger[b]]
    /\ sold = [s \in Shops |-> SeedSold[s]]
    /\ review = [v \in Reviews |-> SeedReview[v]]
    /\ req = [r \in Requests |-> NoRequest]
    /\ opened = {s \in Shops : SeedShop[s].at = "active"}
    /\ via = [v \in Reviews |-> SeedVia[v]]
    /\ started = 0
    /\ faults = 0

-----------------------------------------------------------------------------
(* Rules of the domain.  A viewer is a user, or None who has not signed in. *)

CanModerate(u) == u \in Admins

ValidateShopName(n)      == n # 0
ValidateBurgerName(n)    == n # 0

\* Mutant of ValidateReviewContent: no upper bound.
MutValidateReviewContent(k) == k >= 1

ValidateReviewContent(k) == k \in 1 .. 5

NewShopSubmission(n, u) ==
    [at |-> "pending", note |-> FALSE, closed |-> FALSE, name |-> n, creator |-> u]

NewReview(u, b, k) == [at |-> "kept", author |-> u, burger |-> b, rating |-> k]

\* Mutant of Approve: the note of an earlier rejection stays.
MutApprove(row) == [row EXCEPT !.at = "active"]

\* Transitions of a shop: values, from whatever status.
Approve(row) == [row EXCEPT !.at = "active", !.note = FALSE]
Reject(row, note) == [row EXCEPT !.at = "rejected", !.note = note]
Close(row)  == [row EXCEPT !.closed = TRUE]
Reopen(row) == [row EXCEPT !.closed = FALSE]

CanBeClosed(row) == row.at = "active" /\ ~row.closed
CanBeReopened(row) == row.closed

\* The only rule for posting: never when closed or rejected.
CanBeReviewedBy(row, u) ==
    /\ ~row.closed
    /\ \/ row.at = "active"
       \/ row.at = "pending" /\ (CanModerate(u) \/ row.creator = u)

CanBeReviewedByViewer(row, viewer) == viewer # None /\ CanBeReviewedBy(row, viewer)

\* The only rule for looking: a descriptor of the viewer, applied to a row.
ShopVisibilityFor(viewer) ==
    [all |-> viewer # None /\ CanModerate(viewer),
     id  |-> IF viewer # None /\ ~CanModerate(viewer) THEN viewer ELSE None]

CanView(vis, row) ==
    vis.all \/ row.at = "active" \/ (vis.id # None /\ row.creator = vis.id)

CanBeModifiedBy(v, u) == review[v].author = u

IsFirst(s, S) == s \in S /\ \A t \in S : s <= t
First(S) == CHOOSE s \in S : IsFirst(s, S)

\* Mutant of ReviewShopFor: the first shop, whoever looks.
MutReviewShopFor(S, viewer) ==
    IF S = {} THEN [shop |-> None, can |-> FALSE]
    ELSE [shop |-> First(S), can |-> CanBeReviewedByViewer(shop[First(S)], viewer)]

\* The shop of a review for a viewer: the oldest one the viewer may post at,
\* or else the oldest one the viewer may see.
ReviewShopFor(S, viewer) ==
    LET can == {s \in S : CanBeReviewedByViewer(shop[s], viewer)}
        see == {s \in S : CanView(ShopVisibilityFor(viewer), shop[s])}
    IN  CASE can # {} -> [shop |-> First(can), can |-> TRUE]
          [] can = {} /\ see # {} -> [shop |-> First(see), can |-> FALSE]
          [] OTHER -> [shop |-> None, can |-> FALSE]

-----------------------------------------------------------------------------
(* Statements.  ":one" without a row is an error that ends the request.     *)

ShopRows   == {s \in Shops : shop[s].at # "none"}
\* The status as the table holds it.
ShopStatusCode(at) == CASE at = "pending" -> 0 [] at = "active" -> 1 [] at = "rejected" -> 2

ReviewRows == {v \in Reviews : review[v].at # "none"}

GetShop(s, row) == s \in ShopRows /\ row = shop[s]
GetShopWithCreator(s, row) == s \in ShopRows /\ row = shop[s]

CreateShop(s, row) == IsFirst(s, Shops \ ShopRows) /\ shop' = [shop EXCEPT ![s] = row]

\* Only the columns of the operation: name and link, status and note, closing.
UpdateShopName(s, row) == shop' = [shop EXCEPT ![s].name = row.name]

\* Mutant of UpdateShopStatus: the whole row as it was loaded.
MutUpdateShopStatus(s, row) == shop' = [shop EXCEPT ![s] = row]

UpdateShopStatus(s, row) == shop' = [shop EXCEPT ![s].at = row.at, ![s].note = row.note]

UpdateShopClosedAt(s, row) == shop' = [shop EXCEPT ![s].closed = row.closed]

GetShopBurgerWithStats(s, b) == b \in sold[s]

\* The oldest burger of the shop with exactly this name.
GetShopBurgerByNameWithStats(s, n, b) ==
    LET named == {c \in sold[s] : burger[c] = n}
    IN  IF named = {} THEN b = None ELSE IsFirst(b, named)

CreateBurger(b, n) == IsFirst(b, {c \in Burgers : burger[c] = None})
                      /\ burger' = [burger EXCEPT ![b] = n]
CreateShopBurger(s, b) == sold' = [sold EXCEPT ![s] = @ \cup {b}]
CreateReview(v, row) == IsFirst(v, Reviews \ ReviewRows)
                        /\ review' = [review EXCEPT ![v] = row]

\* Not of withdrawn authors.
GetReviewDetail(v) == review[v].at = "kept" /\ user[review[v].author] = "active"

\* WHERE id = $1 AND discarded_at IS NULL
UpdateReviewContent(v, k) ==
    review[v].at = "kept" /\ review' = [review EXCEPT ![v].rating = k]
DiscardReview(v) ==
    review[v].at = "kept" /\ review' = [review EXCEPT ![v].at = "discarded"]

-----------------------------------------------------------------------------
(* What the API shows.                                                      *)

\* The elements of S, each before those that Before(x, y) puts after it.
Sorted(S, Before(_, _)) ==
    [i \in 1 .. Cardinality(S) |->
        CHOOSE s \in S : Cardinality({t \in S : Before(t, s)}) = i - 1]

\* The three orders of the shop list: three statements with one WHERE.
ByName(s, t) ==
    shop[s].name < shop[t].name \/ (shop[s].name = shop[t].name /\ s < t)

ListShopsByName(vis) ==
    Sorted({s \in ShopRows : \/ vis.all
                             \/ ShopStatusCode(shop[s].at) = 1
                             \/ vis.id # None /\ shop[s].creator = vis.id}, ByName)

ListShopsByNewest(vis) ==
    LET After(s, t) == s > t
    IN  Sorted({s \in ShopRows : \/ vis.all
                                 \/ ShopStatusCode(shop[s].at) = 1
                                 \/ vis.id # None /\ shop[s].creator = vis.id}, After)

\* Shops without an average come last.
ListShopsByRating(vis, average) ==
    LET Better(s, t) ==
            average[s] > average[t] \/ (average[s] = average[t] /\ ByName(s, t))
    IN  Sorted({s \in ShopRows : \/ vis.all
                                 \/ ShopStatusCode(shop[s].at) = 1
                                 \/ vis.id # None /\ shop[s].creator = vis.id}, Better)

\* Pages: 20 rows unless the request says otherwise, 100 at most; a page that is
\* not positive is the first one, and limit and offset are 32-bit integers.
DefaultPerPage == 20
MaxPerPage == 100
MaxInt32 == 2147483647

NormalizePage(page, perPage) ==
    [page    |-> IF page < 1 THEN 1 ELSE page,
     perPage |-> IF perPage < 1 THEN DefaultPerPage
                 ELSE IF perPage > MaxPerPage THEN MaxPerPage ELSE perPage]

clampPage(page, perPage) ==
    LET p == NormalizePage(page, perPage)
        n == IF p.page > MaxInt32 THEN MaxInt32 ELSE p.page
        offset == (n - 1) * p.perPage
    IN  [limit |-> p.perPage, offset |-> IF offset > MaxInt32 THEN MaxInt32 ELSE offset]

\* Of limit + 1 rows the page, and whether another one follows.
trimPage(list, limit) ==
    IF Len(list) > limit THEN [page |-> SubSeq(list, 1, limit), more |-> TRUE]
    ELSE [page |-> list, more |-> FALSE]

\* LIMIT limit + 1 OFFSET offset, trimmed.
PageOf(list, c) ==
    LET last == c.offset + c.limit + 1
    IN  trimPage(SubSeq(list, c.offset + 1, IF last < Len(list) THEN last ELSE Len(list)), c.limit)

Newer(x, y) == x > y

ListShops(vis, sort, average, c) ==
    PageOf(CASE sort = "newest" -> ListShopsByNewest(vis)
             [] sort = "rating" -> ListShopsByRating(vis, average)
             [] OTHER           -> ListShopsByName(vis), c)

List(viewer, sort, average, page, perPage) ==
    ListShops(ShopVisibilityFor(viewer), sort, average, clampPage(page, perPage))

\* The moderators' list: newest first, of one status or of all.
ListShopsForModeration(status) ==
    Sorted({s \in ShopRows : status # None =>
                ShopStatusCode(shop[s].at) = ShopStatusCode(status)}, Newer)

\* The operations that a moderator is offered.
newAdminShopResponse(s) ==
    [shop |-> s, approve |-> shop[s].at # "active", reject |-> shop[s].at # "rejected",
     close |-> CanBeClosed(shop[s]), reopen |-> CanBeReopened(shop[s])]

\* None is the answer 403; a status that is none matches no shop.
AdminList(viewer, status, page, perPage) ==
    IF ~CanModerate(viewer) THEN None
    ELSE PageOf(IF status \in Statuses \cup {None} THEN ListShopsForModeration(status) ELSE <<>>,
                clampPage(page, perPage))

HandleAdminListShops(viewer, status, page, perPage) ==
    LET list == AdminList(viewer, status, page, perPage) IN
    IF list = None THEN None
    ELSE [list EXCEPT !.page = [i \in DOMAIN @ |-> newAdminShopResponse(@[i])]]

\* Reviews of withdrawn users are left out.
ListShopReviews(s) ==
    {v \in ReviewRows : review[v].burger \in sold[s] /\ GetReviewDetail(v)}

\* The detail of a shop; None for a hidden shop as for none.
Get(viewer, s) ==
    IF s \notin ShopRows \/ ~CanView(ShopVisibilityFor(viewer), shop[s]) THEN None
    ELSE [row |-> shop[s], reviews |-> ListShopReviews(s),
          can |-> CanBeReviewedByViewer(shop[s], viewer)]

\* The answer carries the moderators' note, too.
newShopDetailResponse(detail) ==
    [code |-> 200, note |-> detail.row.note, reviews |-> detail.reviews, can |-> detail.can]

HandleGetShop(viewer, s) ==
    IF Get(viewer, s) = None THEN [code |-> 404] ELSE newShopDetailResponse(Get(viewer, s))

ActiveShops(b) == {s \in ShopRows : b \in sold[s] /\ ShopStatusCode(shop[s].at) = 1}

\* The feed: reviews of burgers with an active shop, at the oldest of these.
ListPublicReviews(filter) ==
    LET public == {v \in ReviewRows :
                      /\ GetReviewDetail(v)
                      /\ ActiveShops(review[v].burger) # {}
                      /\ filter # None => filter \in ActiveShops(review[v].burger)}
        list == Sorted(public, Newer)
    IN  [i \in DOMAIN list |->
            [review |-> list[i], shop |-> First(ActiveShops(review[list[i]].burger))]]

ListReviews(filter, c) == PageOf(ListPublicReviews(filter), c)

\* A page of the feed, with whether the viewer may edit each review.
Feed(viewer, filter, page, perPage) ==
    LET list == ListReviews(filter, clampPage(page, perPage)) IN
    [list EXCEPT !.page = [i \in DOMAIN @ |->
        [review |-> @[i].review, shop |-> @[i].shop,
         edit |-> viewer # None /\ CanBeModifiedBy(@[i].review, viewer)]]]

\* The ranking: burgers with a counted review, at their oldest active shop.
ListBurgerRankings(counted) ==
    {[burger |-> b, shop |-> First(ActiveShops(b))] : b \in {c \in counted : ActiveShops(c) # {}}}

ListReviewShops(v) == {s \in ShopRows : review[v].at = "kept" /\ review[v].burger \in sold[s]}

\* The detail of a review; None where it is not found.
GetReview(viewer, v) ==
    IF ~GetReviewDetail(v) THEN None
    ELSE [at   |-> ReviewShopFor(ListReviewShops(v), viewer),
          edit |-> viewer # None /\ CanBeModifiedBy(v, viewer)]

ListBurgerShops(b) == {s \in ShopRows : b \in sold[s]}

\* The detail of a burger: the shops that sell it, as far as the viewer sees.
GetBurger(viewer, b) ==
    IF burger[b] = None THEN None
    ELSE {s \in ListBurgerShops(b) : CanView(ShopVisibilityFor(viewer), shop[s])}

\* There are no more rows than a 32-bit offset reaches, and None is no answer.
ASSUME ReadsAssumption ==
    /\ IsFiniteSet(Shops) /\ Cardinality(Shops) <= MaxInt32
    /\ IsFiniteSet(Reviews) /\ Cardinality(Reviews) <= MaxInt32
    /\ Averages \subseteq [Shops -> Nat]
    /\ PerPages \subseteq Int
    /\ None \notin [row : ShopRow, reviews : SUBSET Reviews, can : BOOLEAN]
    /\ None \notin [at : [shop : Shops \cup {None}, can : BOOLEAN], edit : BOOLEAN]
    /\ None \notin [page : Seq(Shops), more : BOOLEAN]

-----------------------------------------------------------------------------
(* Requests.                                                                *)

RequireAuth(u) == user[u] = "active"

Done(r) == req' = [req EXCEPT ![r] = NoRequest]

Started == started < MaxRequests /\ started' = started + 1

\* A request passed its checks and goes on at pc.
Arrive(r, op, pc, u, q) ==
    /\ req[r].pc = "idle"
    /\ Started
    /\ req' = [req EXCEPT ![r] = [q EXCEPT !.op = op, !.pc = pc, !.user = u]]
    /\ UNCHANGED <<rows, history, faults>>

\* A member submits a shop: one statement.
HandleCreateShop(u, n) ==
    /\ RequireAuth(u)
    /\ ValidateShopName(n)
    /\ \E s \in Shops \ ShopRows : CreateShop(s, NewShopSubmission(n, u))
    /\ Started
    /\ UNCHANGED <<user, burger, sold, review, req, history, faults>>

\* The shop was loaded and is to be written as row.
Load(r, u, s, op, row) ==
    Arrive(r, op, "write", u, [NoRequest EXCEPT !.shop = s, !.row = row])

RenameShop(r, u, s, n) ==
    /\ CanModerate(u)
    /\ ValidateShopName(n)
    /\ \E row \in {shop[s]} : /\ GetShopWithCreator(s, row)
                              /\ Load(r, u, s, "rename", [row EXCEPT !.name = n])

\* What approving and rejecting have in common.
Moderate(r, u, s, op, next) ==
    /\ CanModerate(u)
    /\ GetShopWithCreator(s, shop[s])
    /\ Load(r, u, s, op, next)

ApproveShop(r, u, s) == Moderate(r, u, s, "approve", Approve(shop[s]))
RejectShop(r, u, s, note) == Moderate(r, u, s, "reject", Reject(shop[s], note))

CloseShop(r, u, s) ==
    /\ CanModerate(u)
    /\ GetShopWithCreator(s, shop[s])
    /\ CanBeClosed(shop[s])
    /\ Load(r, u, s, "close", Close(shop[s]))

ReopenShop(r, u, s) ==
    /\ CanModerate(u)
    /\ GetShopWithCreator(s, shop[s])
    /\ CanBeReopened(shop[s])
    /\ Load(r, u, s, "reopen", Reopen(shop[s]))

HandleAdminUpdateShop(r, u, s, n) == RequireAuth(u) /\ RenameShop(r, u, s, n)
HandleApproveShop(r, u, s) == RequireAuth(u) /\ ApproveShop(r, u, s)
HandleRejectShop(r, u, s, note) == RequireAuth(u) /\ RejectShop(r, u, s, note)
HandleCloseShop(r, u, s) == RequireAuth(u) /\ CloseShop(r, u, s)
HandleReopenShop(r, u, s) == RequireAuth(u) /\ ReopenShop(r, u, s)

\* The write of a loaded shop.
WriteShop(r) ==
    LET q == req[r] IN
    /\ q.pc = "write" /\ q.shop # None
    /\ \/ q.op = "rename" /\ UpdateShopName(q.shop, q.row)
       \/ q.op \in {"approve", "reject"} /\ UpdateShopStatus(q.shop, q.row)
       \/ q.op \in {"close", "reopen"} /\ UpdateShopClosedAt(q.shop, q.row)
    /\ opened' = opened \cup {s \in Shops : shop'[s].at = "active"}
    /\ Done(r)
    /\ UNCHANGED <<user, burger, sold, review, via, bounds>>

-----------------------------------------------------------------------------
(* Posting, editing and discarding a review.                                *)

\* Bound: there are free rows for what running posts may make.
Room(b) ==
    LET posts == {r \in Requests : req[r].op = "post"}
        named == {r \in posts : req[r].burger = None}
    IN  /\ Cardinality(ReviewRows) + Cardinality(posts) < Cardinality(Reviews)
        /\ b # None \/ Cardinality({c \in Burgers : burger[c] # None}) + Cardinality(named)
                          < Cardinality(Burgers)

\* The shop takes the review; a burger comes by id or, without one, by name.
PostReview(r, u, s, b, n, k) ==
    /\ GetShop(s, shop[s])
    /\ CanBeReviewedBy(shop[s], u)
    /\ b = None => ValidateBurgerName(n) /\ ValidateReviewContent(k)
    /\ Room(b)
    /\ Arrive(r, "post", IF b = None THEN "find" ELSE "burger", u,
              [NoRequest EXCEPT !.shop = s, !.burger = b, !.name = n, !.rating = k])

HandleCreateReview(r, u, s, b, n, k) == RequireAuth(u) /\ PostReview(r, u, s, b, n, k)

\* By id: the burger must be one of this shop.
FindBurgerById(r) ==
    LET q == req[r] IN
    /\ q.pc = "burger"
    /\ IF GetShopBurgerWithStats(q.shop, q.burger) /\ ValidateReviewContent(q.rating)
       THEN req' = [req EXCEPT ![r].pc = "store"]
       ELSE Done(r)
    /\ UNCHANGED <<rows, history, bounds>>

\* Mutant of FindBurgerByName: the new burger is committed on its own.
MutFindBurgerByName(r) ==
    LET q == req[r] IN
    /\ q.pc = "find"
    /\ \E b \in Burgers \cup {None} :
        /\ GetShopBurgerByNameWithStats(q.shop, q.name, b)
        /\ IF b # None
           THEN req' = [req EXCEPT ![r].pc = "store", ![r].burger = b] /\ UNCHANGED <<burger, sold>>
           ELSE \E c \in Burgers : /\ CreateBurger(c, q.name) /\ CreateShopBurger(q.shop, c)
                                   /\ req' = [req EXCEPT ![r].pc = "store", ![r].burger = c]
    /\ UNCHANGED <<user, shop, review, history, bounds>>

\* By name, in the transaction that stores the review: without a burger of the
\* name a new one is made, which nobody sees before the commit.
FindBurgerByName(r) ==
    LET q == req[r] IN
    /\ q.pc = "find"
    /\ \E b \in Burgers \cup {None} :
        /\ GetShopBurgerByNameWithStats(q.shop, q.name, b)
        /\ req' = [req EXCEPT ![r].pc = "store", ![r].burger = b]
    /\ UNCHANGED <<rows, history, bounds>>

\* The transaction commits: the review, and the new burger with its link.
StoreReview(r) ==
    LET q == req[r] IN
    /\ q.pc = "store"
    /\ \E b \in Burgers, v \in Reviews :
        /\ IF q.burger # None THEN b = q.burger /\ UNCHANGED <<burger, sold>>
           ELSE CreateBurger(b, q.name) /\ CreateShopBurger(q.shop, b)
        /\ CreateReview(v, NewReview(q.user, b, q.rating))
        /\ via' = [via EXCEPT ![v] = q.shop]
    /\ Done(r)
    /\ UNCHANGED <<user, shop, opened, bounds>>

\* The review was loaded, and the viewer wrote it.
EditReview(r, u, v, k) ==
    /\ GetReviewDetail(v)
    /\ CanBeModifiedBy(v, u)
    /\ ValidateReviewContent(k)
    /\ Arrive(r, "edit", "write", u, [NoRequest EXCEPT !.review = v, !.rating = k])

DeleteReview(r, u, v) ==
    /\ GetReviewDetail(v)
    /\ CanBeModifiedBy(v, u)
    /\ Arrive(r, "discard", "write", u, [NoRequest EXCEPT !.review = v])

HandleUpdateReview(r, u, v, k) == RequireAuth(u) /\ EditReview(r, u, v, k)
HandleDeleteReview(r, u, v) == RequireAuth(u) /\ DeleteReview(r, u, v)

\* The write of a loaded review; without a kept row it is not found.
WriteReview(r) ==
    LET q == req[r] IN
    /\ q.pc = "write" /\ q.review # None
    /\ \/ q.op = "edit" /\ UpdateReviewContent(q.review, q.rating)
       \/ q.op = "discard" /\ DiscardReview(q.review)
       \/ review[q.review].at # "kept" /\ UNCHANGED review
    /\ Done(r)
    /\ UNCHANGED <<user, shop, burger, sold, history, bounds>>

\* A user withdraws; the reviews stay as rows.
Withdraw(u) ==
    /\ RequireAuth(u)
    /\ user' = [user EXCEPT ![u] = "gone"]
    /\ Started
    /\ UNCHANGED <<shop, burger, sold, review, req, history, faults>>

\* An error or a crash: an open transaction rolls back.
Fail(r) ==
    /\ req[r].pc # "idle"
    /\ faults < MaxFaults
    /\ faults' = faults + 1
    /\ Done(r)
    /\ UNCHANGED <<rows, history, started>>

-----------------------------------------------------------------------------

Next ==
    \/ \E u \in Users : Withdraw(u) \/ \E n \in Names : HandleCreateShop(u, n)
    \/ \E r \in Requests :
        \/ WriteShop(r) \/ FindBurgerById(r) \/ FindBurgerByName(r)
        \/ StoreReview(r) \/ WriteReview(r) \/ Fail(r)
        \/ \E u \in Users, s \in Shops :
            \/ HandleApproveShop(r, u, s)
            \/ HandleCloseShop(r, u, s)
            \/ HandleReopenShop(r, u, s)
            \/ \E n \in Names : HandleAdminUpdateShop(r, u, s, n)
            \/ \E note \in BOOLEAN : HandleRejectShop(r, u, s, note)
            \/ \E k \in Ratings :
                \/ \E b \in Burgers : HandleCreateReview(r, u, s, b, 0, k)
                \/ \E n \in Names : HandleCreateReview(r, u, s, None, n, k)
        \/ \E u \in Users, v \in Reviews :
            \/ HandleDeleteReview(r, u, v)
            \/ \E k \in Ratings : HandleUpdateReview(r, u, v, k)

Spec == Init /\ [][Next]_vars

-----------------------------------------------------------------------------
(* Properties.                                                              *)

\* Every row has the form that the schema of the database gives it.
TypeOK ==
    /\ user \in [Users -> {"active", "gone"}]
    /\ shop \in [Shops -> ShopRow]
    /\ burger \in [Burgers -> (Names \ {0}) \cup {None}]
    /\ sold \in [Shops -> SUBSET {b \in Burgers : burger[b] # None}]
    /\ review \in [Reviews -> ReviewRow]
    /\ \A s \in ShopRows : shop[s].name # 0
    /\ \A v \in ReviewRows :
        /\ review[v].author \in Users /\ burger[review[v].burger] # None
        /\ review[v].rating # 0

\* A note explains a rejection, and a closed shop has been open: whatever order
\* the moderators' reads and writes came in.
StatusExplained ==
    \A s \in ShopRows :
        /\ shop[s].note => shop[s].at = "rejected"
        /\ shop[s].closed => s \in opened

\* The request that a step ends wrote shop s for one of these operations.
Wrote(s, ops) ==
    \E r \in Requests : /\ req[r].pc = "write" /\ req[r].shop = s /\ req[r].op \in ops
                        /\ req'[r].pc = "idle"

\* A moderator's write from an old load undoes nothing of another moderator's:
\* a column of a shop changes only by a request for that column.  A discarded
\* review never changes again, and a rating only by its author's edit.
NothingUndone ==
    [][/\ \A s \in ShopRows :
            /\ shop'[s].name # shop[s].name => Wrote(s, {"rename"})
            /\ <<shop'[s].at, shop'[s].note>> # <<shop[s].at, shop[s].note>>
                    => Wrote(s, {"approve", "reject"})
            /\ shop'[s].closed # shop[s].closed => Wrote(s, {"close", "reopen"})
       /\ \A v \in ReviewRows :
            /\ review[v].at = "discarded" => review'[v] = review[v]
            /\ review'[v].rating # review[v].rating =>
                \E r \in Requests : /\ req[r].op = "edit" /\ req[r].review = v
                                    /\ req[r].user = review[v].author]_vars

\* A review is about a burger of the shop it was posted at, and until a shop
\* has been active only its creator and administrators have reviewed it there.
\* No burger is left without a review by a post that failed.
PostedWhereAllowed ==
    /\ \A v \in ReviewRows :
        /\ review[v].burger \in sold[via[v]]
        /\ \/ via[v] \in opened
           \/ CanModerate(review[v].author)
           \/ shop[via[v]].creator = review[v].author
    /\ \A b \in Burgers : burger[b] # None =>
        SeedBurger[b] # None \/ \E v \in ReviewRows : review[v].burger = b

Viewers == {None} \cup {u \in Users : user[u] = "active"}

\* The pages that a reader of n rows may come to.
Upto(n) == 1 .. n + 1

\* Page by page, until no more follow, page gives all of S, once each, and no
\* page but the first is empty.
ReadsAll(page, S) ==
    LET more  == {p \in Upto(Cardinality(S)) : page[p].more}
        pages == {<<p, page[p].page>> : p \in {q \in Upto(Cardinality(S)) : q = 1 \/ q - 1 \in more}}
        shown == UNION {{<<x[1], i, x[2][i]>> : i \in DOMAIN x[2]} : x \in pages}
    IN  /\ Cardinality(shown) = Cardinality(S)
        /\ {x[3] : x \in shown} = S
        /\ \A x \in pages : x[2] = <<>> => x[1] = 1

\* The reviews whose detail names a shop to everybody.
ShownReviews == {v \in Reviews : GetReview(None, v) # None /\ GetReview(None, v).at.shop # None}

\* What the feed says of these reviews to one who has not signed in.
Entries(V) == {[review |-> v, shop |-> GetReview(None, v).at.shop, edit |-> FALSE] : v \in V}

\* All ways to look agree with the one rule.  Every order of the list, read
\* page by page, and the detail show the shops a viewer may see; moderators read
\* all of them, and a note is for them and the creator; a review's and a
\* burger's shops are visible ones; feed and ranking name the shop that the
\* detail names for an anonymous viewer; the feed, read page by page, has every
\* review whose detail names a shop, and the feed of an active shop has the
\* reviews in its detail.
ShownIsVisible ==
    /\ \A viewer \in Viewers :
        LET vis  == ShopVisibilityFor(viewer)
            seen == {s \in ShopRows : CanView(vis, shop[s])}
        IN  /\ {s \in Shops : HandleGetShop(viewer, s).code = 200} = seen
            /\ \A sort \in {"name", "newest", "rating"}, average \in Averages, k \in PerPages :
                ReadsAll([p \in Upto(Cardinality(seen)) |-> List(viewer, sort, average, p, k)], seen)
            /\ \A v \in ReviewRows : GetReview(viewer, v) # None =>
                LET at == GetReview(viewer, v).at IN
                /\ at.shop # None => at.shop \in seen
                /\ at.can => HandleGetShop(viewer, at.shop).can
            /\ \A b \in Burgers : burger[b] # None => GetBurger(viewer, b) \subseteq seen
            /\ \A s \in seen : HandleGetShop(viewer, s).note =>
                viewer # None /\ (CanModerate(viewer) \/ shop[s].creator = viewer)
    /\ \A u \in Users, k \in PerPages : IF CanModerate(u)
        THEN ReadsAll([p \in Upto(Cardinality(ShopRows)) |-> HandleAdminListShops(u, None, p, k)],
                      {newAdminShopResponse(s) : s \in ShopRows})
        ELSE HandleAdminListShops(u, None, 1, k) = None
    /\ \A k \in PerPages :
        /\ ReadsAll([p \in Upto(Cardinality(ShownReviews)) |-> Feed(None, None, p, k)],
                    Entries(ShownReviews))
        /\ \A s \in ShopRows : shop[s].at = "active" =>
            LET V == HandleGetShop(None, s).reviews
            IN  ReadsAll([p \in Upto(Cardinality(V)) |-> Feed(None, s, p, k)], Entries(V))
    /\ \A x \in ListBurgerRankings(Burgers), v \in ReviewRows :
        review[v].burger = x.burger /\ GetReview(None, v) # None =>
            GetReview(None, v).at.shop = x.shop
=============================================================================
