SPECIFICATION Spec
CONSTANTS
    t1 = t1
    t2 = t2
    root = root
    ann = ann
    bob = bob
    thanks = thanks
    NoRow = NoRow
    NoResponse = NoResponse
    NoUser = NoUser
    Thread <- OneThread
    User <- TwoGuests
    Admin <- Accounts
    EntryCount = 1
    Text <- Responses
    Kinds <- AllKinds
PROPERTIES ImplementsService
