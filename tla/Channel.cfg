SPECIFICATION FairSpec
CONSTANTS
    MaxProviders = 2
    MaxMessages = 2
    MaxFaults = 3
CHECK_DEADLOCK FALSE
INVARIANTS ChannelTypeOK StoppedIsQuiet FailedStartIsQuiet MapFollowsStarts NothingSwallowed
PROPERTIES Resubscribes StopReturns
