SPECIFICATION CrashSpec
CONSTANTS
    t1 = t1
    t2 = t2
    root = root
    ann = ann
    bob = bob
    thanks = thanks
    NoRow = NoRow
    NoResponse = NoResponse
    NoUser = NoUser
    Thread <- TwoThreads
    User <- Everyone
    Admin <- Accounts
    EntryCount = 2
    Text <- Responses
    Kinds <- AuthorKinds
INVARIANTS CrashTypeOK PostIsOwn PromisesLast
PROPERTIES ImplementsArchive
SYMMETRY AnyThread
