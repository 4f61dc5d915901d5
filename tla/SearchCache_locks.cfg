SPECIFICATION FairSpec
CONSTANTS
    a = a
    b = b
    ka = ka
    kb = kb
    None = None
    Clients <- MCClients
    Keys <- MCKeys
    Capacity = 1
    MaxGen = 2
INVARIANTS TypeOK CacheCoherent FreshAnswer
PROPERTIES PublishesEventually AnsweredEventually
