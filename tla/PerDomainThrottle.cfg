\* Two requests of two domains.
SPECIFICATION FairSpec
CONSTANTS
    Callers = {c1, c2}
    Domains = {"a", "b"}
    Default = 1
    MaxBackoff = 2
    Relax = 2
    Ttl = 3
    SweepInterval = 1
    JitterPercent = 50
    RobotsDelays <- OneRobots
INVARIANTS TypeOK OneQueue
PROPERTIES DelayHolds EveryRequestGoes PacesTurns
