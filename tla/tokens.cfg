\* Two logins, one request at a time, a clock that may be off by a half a second.
CONSTANTS
    Workers = {w1}
    Users = {u1, u2}
    TokenIds = {t1, t2}
    TicksPerSecond = 2
    Ttl = 2
    Leeway = 2
    MaxSkew = 1
    MaxTime = 8
    None = none
SPECIFICATION Spec
INVARIANTS
    TypeOK
    RefusedOnlyAfterLifetime
    ServedOnlyWithinLifetime
