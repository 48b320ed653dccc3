\* A coupon for which two ask, over a link that is lost and made again.
CONSTANTS
    r1 = r1
    r2 = r2
    g = g
    p = p
    Callers = {r1, r2, g}
    CommandOf <- MCCommandOf
    Clients = {p}
    NoClient = NoClient
    MaxConnects = 2
    Redeemers = {r1, r2}
    Anonymous = {r1}
    RewardKind = "Mail"
    MaxUseCount = 1
SPECIFICATION Spec
INVARIANTS AnswersMatch PendingIsWaited RewardsWithinUses ToldIsTrue
\* The tool stops connecting at its bound.
CHECK_DEADLOCK FALSE
