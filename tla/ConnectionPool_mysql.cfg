SPECIFICATION Spec
CONSTANTS
    Players = {p1, p2}
    RingSize = 3
    MaxOutstanding = 2
    MaxRequests = 5
    Startup <- MysqlMode
    Traffic = {"write"}
    MainOutcomes = {"ok", "fail", "lost"}
    FileOutcomes = {"ok", "fail", "lost"}
SYMMETRY PlayerSymmetry
INVARIANTS Ownership NothingLeftBehind PointsBound
PROPERTIES RankKept
