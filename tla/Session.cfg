SPECIFICATION FairSpec
CONSTANTS
    ann = ann
    bob = bob
    Accounts <- MCAccounts
    None = None
    Guest = Guest
    MaxLogins = 2
INVARIANTS TypeOK SessionIsFirstUser OneUserWithoutOverlap LoginNeedsPoolUser TrapsNeedTheirCause
PROPERTIES LoneLoginSettles ImplementsDevice
