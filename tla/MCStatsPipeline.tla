-------------------------- MODULE MCStatsPipeline --------------------------
(* Small instances of StatsPipeline for the model checker.                   *)
EXTENDS StatsPipeline, TLC

CONSTANTS u1, u2, r1, r2, r3, r4, b1, b2, s1

\* Two users; every burger in use is sold in every shop in use.
AuthorOf == r1 :> u1 @@ r2 :> u2 @@ r3 :> u1 @@ r4 :> u2
OnBurger == r1 :> b1 @@ r2 :> b1 @@ r3 :> b2 @@ r4 :> b2
MCAuthor == [r \in Reviews |-> AuthorOf[r]]
MCBurgerOf == [r \in Reviews |-> OnBurger[r]]
MCShopsOf == [b \in Burgers |-> Shops]
MCRank == [t \in Targets |-> IF t = b2 THEN 2 ELSE 1]

\* Handlers, workers and ratings are interchangeable.
Symmetry == Permutations(Handlers) \cup Permutations(Workers) \cup Permutations(Ratings)
=============================================================================
