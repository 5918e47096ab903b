SPECIFICATION Spec
CONSTANTS
    a = a
    b = b
    NULL = NULL
    None = None
    Bases <- MCBases
    Maxima <- MCMaxima
    MaxI64 = 2000000000
    AttemptsBound = 23
    Ids <- FourIds
    Emails <- TwoEmails
    EmailOf <- MCEmailOf
    MaxTime = 1
    MaxLimit = 2
    MaxText = 6
    MaxLocal = 3
    MaxLabel = 2
    MaxDomain = 3
    MaxAddress = 6
INVARIANTS
    PatienceIsExact
    NothingIsListedTwice
    StayersAreListed
    AddressesAreTheGrammar
    LocksAreOfMailboxes
PROPERTIES
    DelaysGrowToADay
CHECK_DEADLOCK FALSE
