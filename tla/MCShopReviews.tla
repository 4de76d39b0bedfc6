---------------------------- MODULE MCShopReviews ----------------------------
(* Small instances of ShopReviews for the model checker.                     *)
EXTENDS ShopReviews, TLC

CONSTANTS admin, creator, other

\* An active shop, a pending one, and room for another; both sell the first
\* burger (a link that no request makes, but the schema and the reads allow).
MCSeedShop ==
    [s \in Shops |->
        CASE s = 1 -> [NoShop EXCEPT !.at = "active", !.name = 2, !.creator = admin]
          [] s = 2 -> [NoShop EXCEPT !.at = "pending", !.name = 1, !.creator = creator]
          [] OTHER -> NoShop]
MCSeedBurger == [b \in Burgers |-> IF b = 1 THEN 1 ELSE None]
MCSeedSold == [s \in Shops |-> IF s \in {1, 2} THEN {1} ELSE {}]

\* One review, of the first burger at the first shop.
MCSeedReview ==
    [v \in Reviews |->
        IF v = 1 THEN [at |-> "kept", author |-> other, burger |-> 1, rating |-> 4] ELSE NoReview]
MCSeedVia == [v \in Reviews |-> IF v = 1 THEN 1 ELSE None]

\* The second shop is rated best, the third not at all.
MCAverages == {[s \in Shops |-> IF s = 3 THEN 0 ELSE s]}

Symmetry == Permutations(Requests)
=============================================================================
