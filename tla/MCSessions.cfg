SPECIFICATION Spec
CONSTANTS
    b1 = b1
    b2 = b2
    s1 = s1
    s2 = s2
    ann = ann
    g1 = g1
    g2 = g2
    k1 = k1
    k2 = k2
    k3 = k3
    NoToken = NoToken
    NoUser = NoUser
    Browser <- TwoBrowsers
    Slot <- Slots
    Account <- Accounts
    Guest <- TwoGuests
    Token <- ThreeTokens
    Kinds <- AllKinds
    Faults <- AllFaults
    Uses <- OneIsPatient
INVARIANTS TypeOK GuestHasOneBrowser DeliveredTokenWorks
PROPERTIES ClearsOnlyDead IdentityKept StaleTokenIdentifiesNobody
SYMMETRY Fresh
VIEW Canon
