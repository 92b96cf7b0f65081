CONSTANTS
    th1 = th1
    th2 = th2
    r1 = r1
    r2 = r2
    t1 = t1
    USD = USD
    EUR = EUR
    NONE = NONE
    UNSUPPORTED = UNSUPPORTED
    Threads <- MCThreads
    Runs <- MCRuns
    Tags <- MCTags
    Currencies <- MCCurrencies
    Instants <- MCInstants
    TicksPerDay = 1
    Debits <- MCDebits
    Reads <- MCReads
    Ceilings <- MCCeilings
    MaxCalls = 3
    CallNumbers <- MCCallNumbers

SPECIFICATION Spec

INVARIANTS
    TypeOK
    EntryIdIsInsertionOrder
    ReadsAreSnapshots
    BookCoversEntries

PROPERTY
    RefinesLedger

CONSTRAINT
    ReadsStop

SYMMETRY ThreadSymmetry
