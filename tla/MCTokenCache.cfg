SPECIFICATION FairSpec
CONSTANTS
    Callers = {c1, c2}
    Tokens = {1, 2, 3}
    NoToken = NoToken
    TTL = 3
    Margin = 1
    Life = 4
    Latency = 1
    MaxFaults = 2
INVARIANTS InFlightAlive
PROPERTIES DropsOnlyDead Heals
