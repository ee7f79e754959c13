\* Two requests at a time, of two addresses, over four seconds.
CONSTANTS
    Addresses = {a1, a2}
    Requests = {r1, r2}
    MaxClock = 4
    None = None
SPECIFICATION Spec
INVARIANT BurstAndRate
PROPERTIES IsOneBucket EveryRequestIsAnswered
