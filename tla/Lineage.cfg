\* Three registries that may name each other as predecessor in any way.
SPECIFICATION Spec
CONSTANTS
    Registries = {r1, r2, r3}
    OperatorIds = {o1}
    BotIds = {b1}
    Addresses = {a1, a2}
    MaxPriorHops = 2
    OperatorFee = 2
    BotFee = 1
    None = None
    a1 = a1  a2 = a2
    r1 = r1  r2 = r2  r3 = r3
    b1 = b1
    o1 = o1
SYMMETRY LineageSymmetry
PROPERTY NoUsurpation
CHECK_DEADLOCK FALSE
