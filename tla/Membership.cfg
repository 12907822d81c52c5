SPECIFICATION FairSpec
CONSTANTS
    h1 = h1
    h2 = h2
    h3 = h3
    h4 = h4
    c1 = c1
    Host = {h1, h2, h3, h4}
    Location <- MCLocation
    Client = {c1}
    Scenarios <- MCScenarios
    MaxChecks = 2
INVARIANTS TypeOK WatchedByOne NoJoinMissed
PROPERTY RingRepaired
CHECK_DEADLOCK FALSE
