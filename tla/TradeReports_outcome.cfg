SPECIFICATION RpSpec
CONSTANTS
    RpWorkers = {w1, w2}
    Trades = {t1, t2}
    Failing = {t2}
    RpRestarts = 1
    NoTrade = NoTrade
INVARIANT OutcomeKept
CHECK_DEADLOCK FALSE
