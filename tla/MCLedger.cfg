CONSTANTS
    r1 = r1
    r2 = r2
    t1 = t1
    USD = USD
    EUR = EUR
    NONE = NONE
    UNSUPPORTED = UNSUPPORTED
    Runs <- MCRuns
    Tags <- MCTags
    Currencies <- MCCurrencies
    Instants <- MCInstants
    TicksPerDay = 1
    Debits <- MCDebits
    CeilingSets <- MCCeilingSets
    ReportsEvery = TRUE
    MaxEntries = 3
    HistoryLengths <- MCLengths

SPECIFICATION Spec

INVARIANTS
    TypeOK
    BookIsEntries
    PreflightForetellsDebit
    StrictUnderIsComplete
    VerdictsTellHistory
    CapInForceSeesAllSpend
