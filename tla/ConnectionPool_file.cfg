SPECIFICATION FairSpec
CONSTANTS
    Players = {p1}
    RingSize = 3
    MaxOutstanding = 2
    MaxRequests = 7
    Startup <- ReadsToo
    Traffic = {"write", "read", "print"}
    MainOutcomes = {"ok", "fail"}
    FileOutcomes = {"ok"}
INVARIANTS BackupProtects SuccessStored NoDoubleRank
PROPERTIES ImplementsRequestQueue RequestsAndShutdownEnd
