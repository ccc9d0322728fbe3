CONSTANTS
    r1 = r1
    r2 = r2
    c1 = c1
    c2 = c2
    c3 = c3
    c4 = c4
    mint = mint
    alice = alice
    bob = bob
    Callers <- MCCallers
    Relays <- MCRelays
    Intents = {mint}
    IntentOf <- MCIntentOf
    ExpiresAt <- MCExpiresAt
    Calls <- MCCalls
    UserOf <- MCUserOf
    Creates = {c1, c2, c4}
    Users = {alice, bob}
    Onboarded = {bob}
    MaxRetries = 2
    RestTime = 1
    HasFallback = TRUE
    MaxTime = 1
    Skew = 1
    MaxTtl = 1
    Sponsored = TRUE
    MaxManagers = 2
    MaxFaults = 1
    MaxRequests = 3
SPECIFICATION LiveSpec
INVARIANTS
    TypeOK
    AnswersAreTrue
    AnswersAgree
    OneManagerPerAddress
PROPERTIES
    ReplaysAreRefused
    EveryRequestIsAnswered
CHECK_DEADLOCK FALSE
