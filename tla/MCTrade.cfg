SPECIFICATION FairSpec
CONSTANTS
    QuoteIds = {q1, q2}
    Expiries = {1}
    MaxAttempts = 1
    MaxTime = 2
    MaxBlocks = 3
    None = None


INVARIANTS SignedAsConfirmed SentWhileCurrent FreshQuoteEachRound BoundedTrade NothingSentIsTrue
PROPERTIES VerdictsAreCanonical EndsOrWaits
CHECK_DEADLOCK FALSE
