CONSTANTS
    r1 = r1
    r2 = r2
    t1 = t1
    c1 = c1
    c2 = c2
    c3 = c3
    USD = USD
    NONE = NONE
    UNSUPPORTED = UNSUPPORTED
    Runs <- MCRuns
    Tags <- MCTags
    Currencies <- MCCurrencies
    Instants <- MCInstants
    TicksPerDay = 1
    Debits <- MCDebits
    CeilingSets <- MCCeilingSets
    Ceilings <- MCCeilings
    ReportsEvery = TRUE
    Callers = {c1, c2, c3}
    MaxLost = 2
    Losses <- MCLosses
    MaxEntries = 5
    HistoryLengths <- MCLengths

SPECIFICATION ApprovalsSpec

SYMMETRY CallerSymmetry

INVARIANTS
    CapsHold
    OvershootBounded
