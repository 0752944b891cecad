\* The pinned registry, two operators, two bots, three addresses that own or sign.
SPECIFICATION Spec
CONSTANTS
    Registries = {r1}
    OperatorIds = {o1, o2}
    BotIds = {b1, b2}
    Addresses = {a1, a2, a3}
    MaxPriorHops = 1
    Pin = r1
    OperatorFee = 2
    BotFee = 1
    None = None
    a1 = a1  a2 = a2  a3 = a3
    r1 = r1
    b1 = b1  b2 = b2
    o1 = o1  o2 = o2
SYMMETRY RegistrySymmetry
INVARIANTS TypeOK KeyIndexExact PendingIsLive FeesMatchRegistrations
PROPERTIES TombstonesAreFinal RevokedOperatorFreezesBots OwnerChangesByConsent ImplementsFacts
CHECK_DEADLOCK FALSE
