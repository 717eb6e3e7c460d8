SPECIFICATION FairSpec
CONSTANTS
    Requests = {r1, r2, r3}
    NoRequest = NoRequest
    Capacity = 2
INVARIANTS TypeOK NothingLeaks WaitsForLeavers
PROPERTIES FailsOnlyInExcess FrozenTillFailure EveryRequestAnswered
