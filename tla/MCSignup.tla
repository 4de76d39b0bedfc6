------------------------------ MODULE MCSignup ------------------------------
(* Requests that all ask for one address, for TLC. *)
EXTENDS Signup, TLC

CONSTANT e1

MCEmailOf == [r \in Requests |-> e1]

Symmetry == Permutations(Requests) \cup Permutations(Openers)
=============================================================================
