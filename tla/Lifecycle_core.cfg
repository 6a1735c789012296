SPECIFICATION Spec
CONSTANTS
    r1 = r1
    r2 = r2
    r3 = r3
    r4 = r4
    g1 = g1
    g2 = g2
    Hosts = {h1}
    Groups = {g1, g2}
    Engines = {e1, e2}
    Ranks = {k1, k2}
    Requests = {r1, r2, r3, r4}
    Restored <- Saved
    GroupOf <- GroupsOfRequests
    None = None
    Unset = Unset
    Malformed = Malformed
INVARIANT ServedByAllEngines
INVARIANT GroupsAreWhole
INVARIANT NothingLeft
PROPERTY StartsAndCallsEnd
