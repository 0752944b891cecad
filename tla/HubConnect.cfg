\* CONNECTs of one bot against the chain, the reaper and restarts.
SPECIFICATION Spec
CONSTANTS
    OperatorIds = {o1}
    BotIds = {b1}
    Addresses = {a1, a2}
    None = None
    OperatorNames = {}
    IdOf <- NoNames
    Nonces = {n1, n2}
    Slots = {s1, s2}
    NonceTTL = 1
    RateWindow = 2
    RateMax = 1
    MaxTime = 2
    a1 = a1  a2 = a2  b1 = b1  o1 = o1  o2 = o2
    n1 = n1  n2 = n2  n3 = n3  s1 = s1  s2 = s2
SYMMETRY ConnectSymmetry
INVARIANTS AcceptedWereEntitled AcceptedOnALiveNonce IssuanceBounded
