\* One account commits Eden twice, with a reward between the two.
SPECIFICATION Spec
CONSTANTS
    NumUsers = 1
    Rewards = {2}
    Scopes <- OneReward
INVARIANTS
    RewardsReachAccounts
CHECK_DEADLOCK FALSE
