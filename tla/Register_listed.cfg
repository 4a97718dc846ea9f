CONSTANTS
    p1 = p1
    p2 = p2
    Addresses = {p1, p2}
    Secrets <- TwoSecrets
    Scenarios <- All
SPECIFICATION FairSpec
CHECK_DEADLOCK FALSE
INVARIANTS AddressesServed
PROPERTIES InfoForward StaysListed GetsUnlisted
