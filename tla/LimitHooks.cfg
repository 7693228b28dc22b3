SPECIFICATION Spec
CONSTANTS
    u1 = u1
    u2 = u2
    w1 = w1
    w2 = w2
    s1 = s1
    s2 = s2
    Users = {u1}
    Workers = {w1, w2}
    Stoppers = {s1, s2}
    Cycle = Cycle
    Capacity = 1
    MaxJobs = 3
    NoJob = NoJob
    NoReading = NoReading
SYMMETRY Symmetric
VIEW WithoutGauges
INVARIANT RecordedOnce
INVARIANT StoppedIsQuiet
INVARIANT NoOrphan
INVARIANT NotifiedOnce
