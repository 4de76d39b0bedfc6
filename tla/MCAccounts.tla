---------------------------- MODULE MCAccounts ----------------------------
(* Small instances of Accounts for the model checker.                        *)
EXTENDS Accounts, TLC

CONSTANTS u1, m1

\* One user is registered with a password and the first address.
MCMailOf == u1 :> m1

\* Browsers, subjects, flows, codes and requests are interchangeable.
Symmetry ==
    Permutations(Browsers) \cup Permutations(Subjects) \cup Permutations(Flows)
        \cup Permutations(Codes) \cup Permutations(Requests)
=============================================================================
