SPECIFICATION Spec
CONSTANTS
    t1 = t1
    t2 = t2
    root = root
    ann = ann
    bob = bob
    thanks = thanks
    NoRow = NoRow
    NoResponse = NoResponse
    NoUser = NoUser
    Thread <- TwoThreads
    User <- Everyone
    Admin <- Accounts
    EntryCount = 1
    Text <- Responses
    Kinds <- DisputedKinds
INVARIANTS UndisturbedReply
PROPERTIES ModerationByAdmins ServiceUnlessDisturbed
SYMMETRY AnyThread
