CONSTANTS
    a = a
    a1 = a1
    a2 = a2
    Tabs <- MCTabs
    Hooks <- MCHooks
    TabOf <- MCTabOf
    book = book
    tape = tape
    Channels <- MCChannels
    Wants <- MCWants
    PageLimit = 1
    HubSize = 1
    MaxRows = 2
    MaxToggles = 2
    MaxSockets = 2
    MaxErrors = 1
SPECIFICATION LiveSpec
INVARIANTS
    TypeOK
    NothingAskedForNobody
PROPERTIES
    UpdatesReachTabs
