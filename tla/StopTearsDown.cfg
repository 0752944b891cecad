SPECIFICATION Spec
CONSTANTS
    MaxProviders = 2
    MaxMessages = 2
    MaxFaults = 2
CHECK_DEADLOCK FALSE
INVARIANT StopTearsDown
