CONSTANTS
    a = a
    b = b
    c1 = c1
    c2 = c2
    Servers = {a, b}
    Clients = {c1, c2}
    Home <- Apart
    Names = {"p"}
    UserCodes = {1}
    MaxSaves = 2
    MaxLoads = 2
    MaxResets = 0
    MainOutcomes = {"ok", "fail"}
    FileOutcomes = {"ok"}
SPECIFICATION Spec
SYMMETRY ServersAlike
CHECK_DEADLOCK FALSE
INVARIANTS NoCopy SuccessKept
