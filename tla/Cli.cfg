SPECIFICATION Spec
CONSTANTS
    Terminals = {t1, t2}
    Wallets = {w1, w2}
    Mine = w1
    File = File
    None = None
    MaxCommands = 2
    MaxPolls = 1
    MaxStops = 1
    t1 = t1  t2 = t2  w1 = w1  w2 = w2
CHECK_DEADLOCK FALSE
INVARIANTS CliTypeOK BotKeyOnDisk SignedAsPlanned StoredTokenLive
PROPERTY PointerHasKey
