CONSTANTS
    r1 = r1
    r2 = r2
    w = w
    u = u
    Clients <- MCClients
    Want <- MCWant
    MaxAcquires = 12
SPECIFICATION Spec
INVARIANTS TypeOK RWExclusion WtypeMatches
PROPERTY RefinesRWGuard
