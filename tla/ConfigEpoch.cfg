SPECIFICATION FairSpec
CONSTANTS
    Readers = {r1, r2, r3}
    Updaters = {v1, v2}
PROPERTY EveryoneGetsIn
PROPERTY ImplementsLock
