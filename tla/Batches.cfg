SPECIFICATION Spec
CONSTANTS
    w1 = w1
    w2 = w2
    k1 = k1
    k2 = k2
    notice = notice
    member = member
    i1 = i1
    NULL = NULL
    Calls <- TwoCalls
    Keys <- TwoKeys
    Commands <- NoticeAndMember
    Memberships <- OnlyMember
    Invitations <- OneInvitation
    Limit = 1
SYMMETRY MCSymmetry
INVARIANTS
    TypeOK
    KeyBeginsOneBatch
    DrainedMeansTaken
    RowsAreCountedOnce
CHECK_DEADLOCK FALSE
