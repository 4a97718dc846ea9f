CONSTANTS
    j1 = j1
    j2 = j2
    j3 = j3
    w1 = w1
    w2 = w2
    NoJob = NoJob
    Jobs = {j1, j2, j3}
    AbortableJobs = {j1, j2}
    Workers = {w1, w2}
    MaxStarts = 2
SPECIFICATION FairSpec
INVARIANTS AssertionsHold CompletedAtShutdown
PROPERTIES AbortedIsFinal JobsEnd CallsReturn
