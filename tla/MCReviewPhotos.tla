--------------------------- MODULE MCReviewPhotos ---------------------------
(* Two reviews, the second newer than the first, for TLC. *)
EXTENDS ReviewPhotos, TLC

CONSTANTS r1, r2

MCNewerThan == r1 :> {r2} @@ r2 :> {}

Symmetry == Permutations(Handlers) \cup Permutations(Keys)
=============================================================================
