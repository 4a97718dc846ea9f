CONSTANTS
    a = a
    b = b
    c1 = c1
    c2 = c2
    Servers = {a}
    Clients = {c1, c2}
    Home <- Together
    Names = {"p", "q"}
    UserCodes = {1}
    MaxSaves = 1
    MaxLoads = 1
    MaxResets = 1
    MainOutcomes = {"ok", "fail"}
    FileOutcomes = {"ok", "fail"}
SPECIFICATION FairSpec
CHECK_DEADLOCK FALSE
INVARIANTS TypeOK RestoredToOwner
PROPERTIES LifeOfSave SavingEnds
