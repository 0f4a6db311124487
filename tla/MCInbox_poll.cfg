SPECIFICATION FairSpec
CONSTANTS
    a1 = a1  a2 = a2  k1 = k1  k2 = k2 
    f1 = f1   h1 = h1  h2 = h2
    NoItem = NoItem  NoToken = NoToken
    Recipient <- OneRecipient
    ProcessOf <- OwnProcess
    Agents = {a1}
    Items = {1}
    InitialMembers = {}
    ClaimKeys = {k1, k2}
    FinishKeys = {f1}
    Handlers = {h1, h2}
    MaxAttempts = 1
    Durations = {1}
    Waits = {0, 1}
    Delays = {0}
    MaxTime = 1
PROPERTIES PollReturns ImplementsDelivery
