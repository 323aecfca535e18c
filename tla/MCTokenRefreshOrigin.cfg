CONSTANTS
    r1 = r1
    r2 = r2
    Requests = {r1, r2}
    Ttl = 2
    NoToken = NoToken
    MaxElapsed = 2
SPECIFICATION Spec
INVARIANTS
    RefreshesOnExpiry
