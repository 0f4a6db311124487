SPECIFICATION FairSpec
CONSTANTS
    h1 = h1  h2 = h2  h3 = h3
    Handlers = {h1, h2}
    Mortal = {h1}
    RemoteStatuses = {"working", "input_required", "completed", "rejected"}
    LocalTargets = {"working", "cancelled"}
    MaxMoves = 4
    MaxAttempts = 2
    BaseDelay = 1
    MaxDelay = 2
    Deadline = 2
    ClaimTimeout = 1
    MaxTime = 2
PROPERTIES ReconciliationIsFinal OutcomeIsApplied ImplementsOneShot
INVARIANTS OneSendPerDenial ResendIsDenied TaskFollowsRecord
