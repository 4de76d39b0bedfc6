\* The same, and nobody else changes accounts.
SPECIFICATION Spec
CONSTANTS
    e1 = e1
    Requests = {r1, r2, r3}
    Openers = {o1, o2}
    Emails = {e1}
    EmailOf <- MCEmailOf
    Resend = 2
    TTL = 4
    MaxClock = 4
    MaxWait = 1
    MaxOpens = 3
    MaxChanges = 0
    MaxFaults = 0
    None = None
SYMMETRY Symmetry
INVARIANT IntervalKept
CHECK_DEADLOCK FALSE
