----------------------------- MODULE TokenFamily -----------------------------
(***************************************************************************)
(* What the tokens of one consent promise: a code opens a family, each pair *)
(* of tokens takes the place of the one before it, and a family that ended  *)
(* never gives access again.                                                *)
(***************************************************************************)
EXTENDS Naturals

CONSTANTS Families

VARIABLES
    life,  \* whether something of the family can still be used
    head   \* how many pairs of tokens came from it

Init ==
    /\ life = [f \in Families |-> "none"]
    /\ head = [f \in Families |-> 0]

Open(f) ==
    /\ life[f] = "none"
    /\ life' = [life EXCEPT ![f] = "live"]
    /\ UNCHANGED head

Renew(f) ==
    /\ life[f] = "live"
    /\ head' = [head EXCEPT ![f] = @ + 1]
    /\ UNCHANGED life

\* Revocation, the deletion of a grant and a withdrawal end families together.
End(S) ==
    /\ S # {}
    /\ \A f \in S : life[f] = "live"
    /\ life' = [f \in Families |-> IF f \in S THEN "ended" ELSE life[f]]
    /\ UNCHANGED head

\* A code is stored while the sweep takes what is left of another family.
OpenAndEnd(f, e) ==
    /\ f # e /\ life[f] = "none" /\ life[e] = "live"
    /\ life' = [life EXCEPT ![f] = "live", ![e] = "ended"]
    /\ UNCHANGED head

Next ==
    \/ \E f \in Families : Open(f) \/ Renew(f)
    \/ \E S \in SUBSET Families : End(S)
    \/ \E f, e \in Families : OpenAndEnd(f, e)

Spec == Init /\ [][Next]_<<life, head>>
=============================================================================
