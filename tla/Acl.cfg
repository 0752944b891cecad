\* Two bots of one operator or of two, every topic and every right.
SPECIFICATION AclSpec
CONSTANTS
    OperatorIds = {o1, o2}
    BotIds = {b1, b2}
    Addresses = {a1, a2}
    None = None
    AllowBotIds <- ListedBot
    Accs = {0, 1, 2, 3, 4}
    a1 = a1  a2 = a2  b1 = b1  b2 = b2  o1 = o1  o2 = o2
SYMMETRY AclSymmetry
INVARIANTS GrantedWereLive DueIsNotDenied
PROPERTY GrantsFollowLists
