---------------------------- MODULE MCOAuthTokens ----------------------------
(* Small instances of OAuthTokens for the model checker.                     *)
EXTENDS OAuthTokens, TLC

CONSTANTS read, write, get_shop, create_review

\* A tool that reads and one that writes.
MCToolScopes == get_shop :> read @@ create_review :> write

\* Ids of grants, families and requests are interchangeable.
Symmetry == Permutations(Grants) \cup Permutations(Families) \cup Permutations(Requests)
=============================================================================
