---------------------------- MODULE DerivedStats ----------------------------
(* What the statistics pipeline promises about one derived value per target: *)
(* the value shown is one that was true when it was read, values are read    *)
(* and shown one after the other (what is shown never goes back in time),    *)
(* and a target that is not marked dirty shows what is true now.             *)
CONSTANTS Targets, Values

VARIABLES
    truth,  \* what each target should show
    shown,  \* what it shows
    draft,  \* the value read for it and not shown yet: none or one
    dirty   \* the targets marked for recalculation

vars == <<truth, shown, draft, dirty>>

Init ==
    /\ truth \in [Targets -> Values]
    /\ shown = truth
    /\ draft = [t \in Targets |-> {}]
    /\ dirty = {}

\* What is true changes; every target whose truth changed is marked.
Change(T) ==
    /\ truth' \in [Targets -> Values]
    /\ \A t \in Targets \ T : truth'[t] = truth[t]
    /\ dirty' = dirty \cup T
    /\ UNCHANGED <<shown, draft>>

\* A recalculation reads the truth; no other one of this target is under way.
Read(t) ==
    /\ draft[t] = {}
    /\ draft' = [draft EXCEPT ![t] = {truth[t]}]
    /\ UNCHANGED <<truth, shown, dirty>>

\* It gives up.
Drop(t) ==
    /\ draft' = [draft EXCEPT ![t] = {}]
    /\ UNCHANGED <<truth, shown, dirty>>

\* It shows what it read, and takes the mark away only if that is still true.
Show(t) ==
    \E v \in draft[t] :
        /\ shown' = [shown EXCEPT ![t] = v]
        /\ draft' = [draft EXCEPT ![t] = {}]
        /\ \/ dirty' = dirty
           \/ v = truth[t] /\ dirty' = dirty \ {t}
        /\ UNCHANGED truth

Next ==
    \/ \E T \in SUBSET Targets : Change(T)
    \/ \E t \in Targets : Read(t) \/ Drop(t) \/ Show(t)

Spec == Init /\ [][Next]_vars
=============================================================================
