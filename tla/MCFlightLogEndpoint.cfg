SPECIFICATION EndpointSpec
CONSTANTS
    r1 = r1
    root = root
    ann = ann
    thanks = thanks
    Nobody = Nobody
    NoAnswer = NoAnswer
    Null = Null
    Reader <- OneReader
    User <- Everyone
    Admin <- Accounts
    EntryCount = 2
    Text <- Responses
    Requests <- SomeRequests
INVARIANTS EndpointTypeOK ListIsTrue HiddenOnlyToAdmins DecisionIsMeant
CHECK_DEADLOCK FALSE
