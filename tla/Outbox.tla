------------------------------- MODULE Outbox -------------------------------
(* What the mailer promises about each mail, named by its idempotency key:   *)
(* it is claimed once, goes out at most once, and a result that is reported  *)
(* is final; "sent" is reported only of a mail that went out.                *)
EXTENDS Naturals

CONSTANT Keys

VARIABLES
    claimed,  \* the mails somebody has taken on
    out,      \* how often each mail went out
    result    \* what is reported of each

vars == <<claimed, out, result>>

Init ==
    /\ claimed = {}
    /\ out = [k \in Keys |-> 0]
    /\ result = [k \in Keys |-> "none"]

Claim(k) ==
    /\ k \notin claimed
    /\ claimed' = claimed \cup {k}
    /\ UNCHANGED <<out, result>>

Send(k) ==
    /\ k \in claimed
    /\ out[k] = 0
    /\ result[k] = "none"
    /\ out' = [out EXCEPT ![k] = 1]
    /\ UNCHANGED <<claimed, result>>

Report(k, r) ==
    /\ k \in claimed
    /\ result[k] = "none"
    /\ r = "sent" => out[k] = 1
    /\ result' = [result EXCEPT ![k] = r]
    /\ UNCHANGED <<claimed, out>>

Next ==
    \E k \in Keys :
        \/ Claim(k) \/ Send(k)
        \/ \E r \in {"sent", "failed"} : Report(k, r)

Spec == Init /\ [][Next]_vars
=============================================================================
