\* Three signups of one address, two handlers of opened links.
SPECIFICATION Spec
CONSTANTS
    e1 = e1
    Requests = {r1, r2, r3}
    Openers = {o1, o2}
    Emails = {e1}
    EmailOf <- MCEmailOf
    Resend = 2
    TTL = 4
    MaxClock = 4
    MaxWait = 1
    MaxOpens = 3
    MaxChanges = 2
    MaxFaults = 1
    None = None
SYMMETRY Symmetry
INVARIANTS TypeOK AccountAsMailed OneAccountPerLink NewestLinkAlive RateKept
PROPERTY NewestLinkOnly
CHECK_DEADLOCK FALSE
