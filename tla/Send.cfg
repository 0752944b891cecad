SPECIFICATION FairSpec
CONSTANTS
    MaxSends = 3
    Bots = {b1}
    BotOf <- OneBot
    MaxKey = 2
    MaxFaults = 1
    b1 = b1
CHECK_DEADLOCK FALSE
INVARIANTS OneAtATime ToldTrue OneStaleFailure
PROPERTY Settles
