CONSTANTS
    MaxUsers = 2
    MaxConns = 2
    Cap = 1
SPECIFICATION FairSpec
INVARIANTS LogInv Relayed OneSubscription
PROPERTIES LoggerReturns SubscriptionEnds CallReturns
CHECK_DEADLOCK FALSE
