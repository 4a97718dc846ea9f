CONSTANTS
    Topics = {"chat", "ingame"}
    Logins = {"l1"}
    MaxMessages = 2
    Second = 1
    MaxTick = 2
    AckInCallback = TRUE
SPECIFICATION FairSpec
INVARIANTS TypeOK NothingSentTwice LoginHandledOnce
PROPERTIES KeptAreSent MapIsSent HeartbeatsGoOn
