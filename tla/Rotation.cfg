SPECIFICATION Spec
CONSTANTS
    c1 = c1
    c2 = c2
    w1 = w1
    ana = ana
    bob = bob
    mail = mail
    post = post
    k1 = k1
    k2 = k2
    k3 = k3
    k4 = k4
    k5 = k5
    NULL = NULL
    MaxInvitations = 1
    MaxGeneration = 3
    MaxCommandAttempts = 1
    BatchLimit = 1
    RefusalIsFinal = TRUE
    Emails <- MCEmails
    Subjects <- MCSubjects
    Keys <- MCKeys
    Clients <- TwoClients
    Workers <- OneWorker
    Executors <- MCExecutors
    Requests <- RotationRequests
SYMMETRY MCSymmetry
INVARIANTS
    DeliveryIsHonest
    OnlyCurrentNotificationIsLive
    LinkStaysUsable
PROPERTIES
    AcceptanceUsesCurrentToken
    ImplementsLifecycle
    ImplementsTransactions
CHECK_DEADLOCK FALSE
