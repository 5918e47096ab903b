SPECIFICATION Spec
CONSTANTS
    t1 = t1
    t2 = t2
    t3 = t3
    k1 = k1
    k2 = k2
    k3 = k3
    i1 = i1
    i2 = i2
    mail = mail
    post = post
    NULL = NULL
    MaxGeneration = 2
    SweepLimit = 2
    Txns <- ThreeTxns
    Keys <- TwoKeys
    Invitations <- OneInvitation
    Addresses <- OneAddress
SYMMETRY MCSymmetry
INVARIANTS
    OnlyDeliveriesDeadlock
    StartedKeysAreBound
CHECK_DEADLOCK FALSE
