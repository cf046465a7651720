SPECIFICATION SpecNoFaults
CONSTANTS
    r1 = r1  r2 = r2  v1 = v1  v2 = v2  alice = alice  bypass_mail = bypass_mail
    Emails = {alice, bypass_mail}
    Requests = {r1, r2}
    Verifies = {v1, v2}
    BypassUser = bypass
    BypassEmail = bypass_mail
    Bogus = bogus
    ExpireMinutes = 1
    JwtMinutes = 1
    MaxTime = 1
    MaxResets = 0
    Absent = absent
    Never = never
CHECK_DEADLOCK FALSE
INVARIANT SameAnswer
